---- MODULE Spec2Model ----
(***************************************************************************)
(* SwapCred server: the exchange-request lifecycle.                        *)
(*                                                                         *)
(* Documents are records whose DOMAIN is the set of fields the document    *)
(* holds, so a Firestore update (a merge of top-level fields) and a JS     *)
(* object spread are the same operator, Merge.  One action is one HTTP     *)
(* handler, from its first guard to its response.                          *)
(***************************************************************************)
EXTENDS Integers, Sequences, FiniteSets

\* ------------------------------------------------------------------ bounds
MaxReqs == 1          \* exchange_requests documents ever created
MaxWarehouses == 1    \* warehouses documents ever created
MaxHistory == 2       \* credit_history documents ever created
MaxFeedbackLen == 4   \* characters of adminFeedback
MaxPoints == 20       \* loyalty points of a customer
MaxListed == 2        \* exchange_requests documents ever created while the clock runs
MaxNow == 2           \* milliseconds the clock runs for
MaxCalls == 2         \* credit assignments served at the same time
MaxSessions == 2      \* sessions documents ever created
MaxTokens == 3        \* session tokens ever generated

\* ------------------------------------------------------------- JS values
NULL == "null"                      \* JS null, where a string may stand
NoObject == <<>>                    \* JS null, where an object may stand
NoMetafield == <<>>                 \* the customer has no loyalty/points metafield

\* JS truthiness of doc.field, by the type the field holds
TruthyString(doc, field) == field \in DOMAIN doc /\ doc[field] \notin {NULL, ""}
TruthyObject(doc, field) == field \in DOMAIN doc /\ doc[field] # NoObject
TruthyNumber(doc, field) == field \in DOMAIN doc /\ doc[field] # 0

\* {...doc, ...upd}, and docRef.update(upd) on top-level fields
Merge(doc, upd) ==
  [k \in DOMAIN doc \cup DOMAIN upd |-> IF k \in DOMAIN upd THEN upd[k] ELSE doc[k]]

\* delete obj.k for every k in ks
Without(doc, ks) == [k \in DOMAIN doc \ ks |-> doc[k]]

\* Numbers of a request body are counted in halves: 3 is 1.5.  NaN is a
\* string that Number() cannot read.
NaN == [nan |-> TRUE]
Num(halves) == [halves |-> halves]

\* Math.round(Number(x)): a half rounds up, towards +Infinity
MathRound(x) == IF x = NaN THEN NaN ELSE Num(2 * ((x.halves + 1) \div 2))

\* new Date() and FieldValue.serverTimestamp() as Firestore stores them: a
\* Timestamp of the clock's time, which has toDate()
Timestamp(time) == [date |-> time]

\* A string of a JSON body, in a field where a Timestamp may stand
JsonString(s) == [string |-> s]

\* value.toDate is a function
HasToDate(value) == "date" \in DOMAIN value

\* --------------------------------------------------------------- strings
\* A string is a sequence of one-character strings.
Whitespace == {" ", "\n"}

RECURSIVE TrimStart(_)
TrimStart(s) ==
  IF s # <<>> /\ Head(s) \in Whitespace THEN TrimStart(Tail(s)) ELSE s

RECURSIVE TrimEnd(_)
TrimEnd(s) ==
  IF s # <<>> /\ s[Len(s)] \in Whitespace THEN TrimEnd(SubSeq(s, 1, Len(s) - 1)) ELSE s

\* String.prototype.trim
Trim(s) == TrimEnd(TrimStart(s))

Digits == <<"0", "1", "2", "3", "4", "5", "6", "7", "8", "9">>
DigitValue(c) == (CHOOSE i \in 1..10 : Digits[i] = c) - 1
IsDigit(c) == \E i \in 1..10 : Digits[i] = c

\* Number.prototype.toString of an integer
RECURSIVE NatToString(_)
NatToString(n) ==
  IF n < 10 THEN <<Digits[n + 1]>> ELSE NatToString(n \div 10) \o <<Digits[(n % 10) + 1]>>

NumberToString(n) == IF n < 0 THEN <<"-">> \o NatToString(0 - n) ELSE NatToString(n)

\* the leading run of digits of s, as a number, given the digits read so far
RECURSIVE ReadDigits(_, _)
ReadDigits(s, acc) ==
  IF s # <<>> /\ IsDigit(Head(s))
    THEN ReadDigits(Tail(s), 10 * acc + DigitValue(Head(s)))
    ELSE acc

\* parseInt(s) || 0: NaN, when s does not start with a (signed) digit, is falsy
ParseIntOrZero(s) ==
  LET t == TrimStart(s)
      neg == t # <<>> /\ Head(t) = "-"
      d == IF neg THEN Tail(t) ELSE t
  IN IF d = <<>> \/ ~IsDigit(Head(d)) THEN 0
     ELSE IF neg THEN 0 - ReadDigits(d, 0) ELSE ReadDigits(d, 0)

\* parseFloat(s) of the decimal string of an integer
ParseFloat(s) == ParseIntOrZero(s)
\* A whole number as an integer
IntOf(x) == x.halves \div 2

\* ----------------------------------------------------------------- actors
\* req.user of the session layer: uid and email.  "adm" is the user whose
\* users document has isAdmin set.  Owners call the owner routes; the admin
\* routes are called by the admin and by one who is none.
Users == {"u1", "u2", "adm"}
Owners == {"u1", "u2"}
AdminCallers == {"adm", "u1"}
EmailOf(uid) == CASE uid = "u1" -> "e1" [] uid = "u2" -> "e2" [] OTHER -> "e3"
IsAdminUser(uid) == uid = "adm"

\* The Shopify shop: the customers that customers/search returns for an email.
\* Only e1 is a customer of the shop.
SearchCustomers(email) == IF email = "e1" THEN <<[id |-> "c1", email |-> "e1"]>> ELSE <<>>
CustomerIds == {"c1"}


\* ------------------------------------------------------------------ state
VARIABLES
  exchange_requests,   \* Firestore collection: document id -> document
  nextRequestId,       \* ids handed out by add(), never reused
  warehouses,          \* Firestore collection: document id -> document
  nextWarehouseId,
  credit_history,      \* Firestore collection, in order of creation
  metafields,          \* Shopify: customer id -> value of loyalty/points, or NoMetafield
  now,                 \* the clock the server reads: Date.now(), in milliseconds
  customerCache,       \* the Map of utils/shopify.js: email -> timestamp and customer
  calls,               \* handlers waiting on an await, with their local variables
  users,               \* Firestore collection: document id -> document
  sessions,            \* Firestore collection: document id -> document
  nextSessionId,       \* ids handed out by add(), never reused
  nextToken,           \* generateSessionToken: the tokens are numbered as they are made
  res                  \* the response of the last request served

vars == <<exchange_requests, nextRequestId, warehouses, nextWarehouseId,
          credit_history, metafields, now, customerCache, calls,
          users, sessions, nextSessionId, nextToken, res>>

\* the state of the session layer
authVars == <<users, sessions, nextSessionId, nextToken>>

\* the state outside the session layer and the clock
storeVars == <<exchange_requests, nextRequestId, warehouses, nextWarehouseId,
               credit_history, metafields, calls>>

RequestIds == 1..MaxReqs
WarehouseIds == 1..MaxWarehouses

\* The stores when the server starts to listen: initializeCollections runs in
\* the background (index.js 49-61), so requests are served on collections that
\* are still empty.  users holds the document of the admin: no route sets the
\* first isAdmin, it is written to Firestore by hand.
Init ==
  /\ exchange_requests = <<>>
  /\ nextRequestId = 1
  /\ warehouses = <<>>
  /\ nextWarehouseId = 1
  /\ credit_history = <<>>
  /\ metafields = [c \in CustomerIds |-> NoMetafield]
  /\ now = 0
  /\ customerCache = <<>>
  /\ calls = <<>>
  /\ users = [uid \in {"adm"} |-> [email |-> EmailOf(uid), isAdmin |-> TRUE]]
  /\ sessions = <<>>
  /\ nextSessionId = 1
  /\ nextToken = 1
  /\ res = [op |-> "none", status |-> 0]

\* collection.doc(id).get().exists
Exists(coll, id) == id \in DOMAIN coll

\* collection.add(doc), the new document under id
Add(coll, id, doc) == [k \in DOMAIN coll \cup {id} |-> IF k = id THEN doc ELSE coll[k]]

\* docRef.update(upd)
Update(coll, id, upd) == [coll EXCEPT ![id] = Merge(coll[id], upd)]

\* docRef.delete()
Delete(coll, id) == [k \in DOMAIN coll \ {id} |-> coll[k]]

\* res.status(code).json(...)
Respond(op, id, code, error) == [op |-> op, id |-> id, status |-> code, error |-> error]

\* createdAt: data.createdAt.toDate(), updatedAt: data.updatedAt.toDate() of a
\* response: answers code, or throws into the handler's catch, which answers
\* 500 with its failure text
Formatted(doc, code, failure) ==
  IF HasToDate(doc.createdAt) /\ HasToDate(doc.updatedAt)
    THEN [status |-> code, error |-> ""]
    ELSE [status |-> 500, error |-> failure]

\* the response, with the value the request asked for
Requested(value, op, id, code, error) == Merge(Respond(op, id, code, error), [requested |-> value])
\* ------------------------------------------------- owner routes (/api/exchange)
\* NotOwner, every caller taken for the owner
NotOwnerNever(exchangeRequest, uid) == FALSE

\* exchangeRequest.userId !== uid
NotOwner(exchangeRequest, uid) == exchangeRequest.userId # uid

\* Request bodies of POST /api/exchange: complete, and lacking a required field
CreateBodies ==
  {[productName |-> pn, description |-> "d", brand |-> "b", condition |-> "c"] :
     pn \in {"p1", ""}}

\* POST /api/exchange
CreateExchangeRequest(uid, body) ==
  /\ IF body.productName = "" \/ body.description = "" \/ body.brand = "" \/ body.condition = ""
       THEN /\ res' = Respond("create", 0, 400, "Missing required fields")
            /\ UNCHANGED <<exchange_requests, nextRequestId>>
       ELSE /\ exchange_requests' =
                 Add(exchange_requests, nextRequestId,
                     [userId |-> uid, userEmail |-> EmailOf(uid),
                      productName |-> body.productName, description |-> body.description,
                      brand |-> body.brand, condition |-> body.condition,
                      status |-> "pending", creditAmount |-> 0, adminFeedback |-> <<>>,
                      shippingDetails |-> NoObject, transitStatus |-> NULL,
                      createdAt |-> Timestamp(now), updatedAt |-> Timestamp(now)])
            /\ nextRequestId' = nextRequestId + 1
            /\ res' = Respond("create", nextRequestId, 201, "")
  /\ UNCHANGED <<warehouses, nextWarehouseId, credit_history, metafields, now, customerCache, calls, authVars>>

\* The shipping details a complete POST /:id/shipping body stores
ShippingDetails(body) ==
  [carrierName |-> body.carrierName, trackingNumber |-> body.trackingNumber,
   shippingDate |-> [date |-> body.shippingDate], address |-> body.address, notes |-> ""]

\* Request bodies of POST /:id/shipping: complete, and lacking one required field
ShippingBodies ==
  {[carrierName |-> "dhl", trackingNumber |-> "t1", shippingDate |-> "d1", address |-> "a1"],
   [carrierName |-> "", trackingNumber |-> "t1", shippingDate |-> "d1", address |-> "a1"],
   [carrierName |-> "dhl", trackingNumber |-> "", shippingDate |-> "d1", address |-> "a1"],
   [carrierName |-> "dhl", trackingNumber |-> "t1", shippingDate |-> "", address |-> "a1"]}

\* Request bodies of PUT /api/exchange/:id: shipping details (an object, and
\* null), an attempt on the protected fields, and a field the route does not
\* name.  The keys of a body are plain field names.
UpdateBodies ==
  {[shippingDetails |-> ShippingDetails(CHOOSE b \in ShippingBodies :
                                          b.carrierName # "" /\ b.trackingNumber # ""
                                            /\ b.shippingDate # "")],
   [shippingDetails |-> NoObject],
   [status |-> "completed", creditAmount |-> 2, adminFeedback |-> <<"a">>,
    userId |-> "u2", userEmail |-> "e2", transitStatus |-> "completed"],
   [warehouseInfo |-> [name |-> "mine"]]}

\* ProtectedFields, the status left in the body
ProtectedFieldsWithoutStatus == {"creditAmount", "adminFeedback", "userId", "userEmail", "transitStatus"}

\* The fields PUT /api/exchange/:id deletes from its body
ProtectedFields == {"status", "creditAmount", "adminFeedback", "userId", "userEmail", "transitStatus"}

\* PUT /api/exchange/:id
UpdateExchangeRequest(uid, id, body) ==
  /\ IF ~Exists(exchange_requests, id)
       THEN /\ res' = Respond("update", id, 404, "Exchange request not found")
            /\ UNCHANGED exchange_requests
     ELSE IF NotOwner(exchange_requests[id], uid)
       THEN /\ res' = Respond("update", id, 403, "Not authorized")
            /\ UNCHANGED exchange_requests
     ELSE IF TruthyObject(body, "shippingDetails") /\ exchange_requests[id].status # "approved"
       THEN /\ res' = Respond("update", id, 400, "Cannot add shipping details")
            /\ UNCHANGED exchange_requests
     ELSE LET updateData == Without(body, ProtectedFields)
              withDate == Merge(updateData, [updatedAt |-> Timestamp(now)])
              updates == IF TruthyObject(updateData, "shippingDetails")
                           THEN Merge(withDate, [transitStatus |-> "shipping"])
                           ELSE withDate
              updatedDoc == Update(exchange_requests, id, updates)
              answer == Formatted(updatedDoc[id], 200, "Failed to update exchange request")
          IN /\ exchange_requests' = updatedDoc
             /\ res' = Respond("update", id, answer.status, answer.error)
  /\ UNCHANGED <<nextRequestId, warehouses, nextWarehouseId, credit_history, metafields, now, customerCache, calls, authVars>>

\* ShippingGuard, shipping details taken whatever the status is
ShippingGuardNever(exchangeRequest) == FALSE

\* exchangeRequest.status !== 'approved' of POST /api/exchange/:id/shipping
ShippingGuard(exchangeRequest) == exchangeRequest.status # "approved"

\* POST /api/exchange/:id/shipping
SubmitShipping(uid, id, body) ==
  /\ IF body.carrierName = "" \/ body.trackingNumber = "" \/ body.shippingDate = ""
       THEN /\ res' = Respond("shipping", id, 400, "Missing required shipping details")
            /\ UNCHANGED exchange_requests
     ELSE IF ~Exists(exchange_requests, id)
       THEN /\ res' = Respond("shipping", id, 404, "Exchange request not found")
            /\ UNCHANGED exchange_requests
     ELSE IF NotOwner(exchange_requests[id], uid)
       THEN /\ res' = Respond("shipping", id, 403, "Not authorized")
            /\ UNCHANGED exchange_requests
     ELSE IF ShippingGuard(exchange_requests[id])
       THEN /\ res' = Respond("shipping", id, 400, "Can only add shipping details to approved")
            /\ UNCHANGED exchange_requests
     ELSE LET shippingDetails == Merge(ShippingDetails(body), [submittedAt |-> Timestamp(now)])
              updatedDoc == Update(exchange_requests, id,
                                   [shippingDetails |-> shippingDetails, transitStatus |-> "shipping",
                                    updatedAt |-> Timestamp(now)])
              answer == Formatted(updatedDoc[id], 200, "Failed to add shipping details")
          IN /\ exchange_requests' = updatedDoc
             /\ res' = Respond("shipping", id, answer.status, answer.error)
  /\ UNCHANGED <<nextRequestId, warehouses, nextWarehouseId, credit_history, metafields, now, customerCache, calls, authVars>>

\* CancelGuard, cancelling whatever the status is
CancelGuardNever(exchangeRequest) == FALSE

\* exchangeRequest.status !== 'pending' of DELETE /api/exchange/:id
CancelGuard(exchangeRequest) == exchangeRequest.status # "pending"

\* CancelExchangeRequest, the document deleted before its status is looked at
CancelDeletingFirst(uid, id) ==
  /\ IF ~Exists(exchange_requests, id)
       THEN /\ res' = Respond("cancel", id, 404, "Exchange request not found")
            /\ UNCHANGED exchange_requests
     ELSE IF NotOwner(exchange_requests[id], uid)
       THEN /\ res' = Respond("cancel", id, 403, "Not authorized")
            /\ UNCHANGED exchange_requests
     ELSE /\ exchange_requests' = Delete(exchange_requests, id)
          /\ res' = Respond("cancel", id, IF CancelGuard(exchange_requests[id]) THEN 400 ELSE 200, "")
  /\ UNCHANGED <<nextRequestId, warehouses, nextWarehouseId, credit_history, metafields, now, customerCache, calls, authVars>>

\* DELETE /api/exchange/:id
CancelExchangeRequest(uid, id) ==
  /\ IF ~Exists(exchange_requests, id)
       THEN /\ res' = Respond("cancel", id, 404, "Exchange request not found")
            /\ UNCHANGED exchange_requests
     ELSE IF NotOwner(exchange_requests[id], uid)
       THEN /\ res' = Respond("cancel", id, 403, "Not authorized")
            /\ UNCHANGED exchange_requests
     ELSE IF CancelGuard(exchange_requests[id])
       THEN /\ res' = Respond("cancel", id, 400, "Cannot cancel once processed")
            /\ UNCHANGED exchange_requests
     ELSE /\ exchange_requests' = Delete(exchange_requests, id)
          /\ res' = Respond("cancel", id, 200, "")
  /\ UNCHANGED <<nextRequestId, warehouses, nextWarehouseId, credit_history, metafields, now, customerCache, calls, authVars>>
\* ------------------------------------- owner reads (GET /api/exchange)
\* What the query with orderBy does: it answers, it throws FAILED_PRECONDITION
\* (code 9) because the composite index is missing, it throws another error
IndexStates == {"ok", "missing", "fails"}

\* { id: doc.id, ...doc.data(), createdAt: ...toDate(), updatedAt: ...toDate() }
FormatDoc(id, doc) ==
  Merge(doc, [id |-> id, createdAt |-> doc.createdAt.date, updatedAt |-> doc.updatedAt.date])

\* the ids of the documents where('userId', '==', uid) selects
OwnedBy(uid) == {id \in DOMAIN exchange_requests : exchange_requests[id].userId = uid}

\* .where('userId', '==', uid).get(): the documents in the order of their ids
RECURSIVE WhereUserId(_)
WhereUserId(ids) ==
  IF ids = {} THEN <<>>
  ELSE LET first == CHOOSE i \in ids : \A j \in ids : i <= j
       IN <<first>> \o WhereUserId(ids \ {first})

\* .where('userId', '==', uid).orderBy('createdAt', 'desc').get(): the entries
\* of the index, by createdAt descending and, within one createdAt, by
\* document id in the direction of the orderBy
RECURSIVE OrderByCreatedAtDesc(_)
OrderByCreatedAtDesc(ids) ==
  IF ids = {} THEN <<>>
  ELSE LET created(i) == exchange_requests[i].createdAt.date
           first == CHOOSE i \in ids :
                      \A j \in ids : created(i) > created(j) \/ (created(i) = created(j) /\ i >= j)
       IN <<first>> \o OrderByCreatedAtDesc(ids \ {first})

\* exchangeRequests.sort((a, b) => b.createdAt - a.createdAt): the sort is
\* stable, elements that compare equal keep their order
RECURSIVE SortByCreatedAtDesc(_)
SortByCreatedAtDesc(exchangeRequests) ==
  IF exchangeRequests = <<>> THEN <<>>
  ELSE LET a == Head(exchangeRequests)
           rest == SortByCreatedAtDesc(Tail(exchangeRequests))
           before == Cardinality({i \in 1..Len(rest) : rest[i].createdAt > a.createdAt})
       IN SubSeq(rest, 1, before) \o <<a>> \o SubSeq(rest, before + 1, Len(rest))

\* snapshot.docs.map(doc => ({ id: doc.id, ...doc.data(), ... }))
FormatDocs(ids) == [i \in 1..Len(ids) |-> FormatDoc(ids[i], exchange_requests[ids[i]])]

\* What GET /api/exchange answers to uid: the status and the list
ListResponse(uid, index) ==
  LET ids == OwnedBy(uid)
      throws == \E id \in ids : ~(HasToDate(exchange_requests[id].createdAt)
                                    /\ HasToDate(exchange_requests[id].updatedAt))
  IN IF index = "fails" \/ throws
       THEN [status |-> 500, error |-> "Failed to get exchange requests", list |-> <<>>]
     ELSE IF index = "ok"
       THEN [status |-> 200, error |-> "", list |-> FormatDocs(OrderByCreatedAtDesc(ids))]
     ELSE [status |-> 200, error |-> "", list |-> SortByCreatedAtDesc(FormatDocs(WhereUserId(ids)))]

\* GET /api/exchange
ListExchangeRequests(uid, index) ==
  /\ res' = Merge(Respond("list", 0, ListResponse(uid, index).status, ListResponse(uid, index).error),
                  [uid |-> uid, index |-> index, list |-> ListResponse(uid, index).list])
  /\ UNCHANGED <<exchange_requests, nextRequestId, warehouses, nextWarehouseId, credit_history, metafields, now, customerCache, calls, authVars>>

\* GET /api/exchange/:id
GetExchangeRequest(uid, id) ==
  /\ IF ~Exists(exchange_requests, id)
       THEN res' = Respond("get", id, 404, "Exchange request not found")
     ELSE IF ~(HasToDate(exchange_requests[id].createdAt) /\ HasToDate(exchange_requests[id].updatedAt))
       THEN res' = Respond("get", id, 500, "Failed to get exchange request")
     ELSE IF NotOwner(exchange_requests[id], uid)
       THEN res' = Respond("get", id, 403, "Not authorized")
     ELSE res' = Merge(Respond("get", id, 200, ""),
                       [exchangeRequest |-> FormatDoc(id, exchange_requests[id])])
  /\ UNCHANGED <<exchange_requests, nextRequestId, warehouses, nextWarehouseId, credit_history, metafields, now, customerCache, calls, authVars>>

\* ------------------------------------------------- admin routes (/api/admin)
\* What the send of a notification does: the mail goes out, or the send fails
EmailStates == {"sent", "failed"}

\* AfterNotification, a failed send failing the request
AfterNotificationPropagating(email, code) == IF email = "failed" THEN 500 ELSE code

\* try { await send...Email(...) } catch (emailError) { console.error(...) }:
\* the status of the response after the send, which is the one before it
AfterNotification(email, code) == code

\* the response, with what the send of the notification did ("none" when
\* the handler sent none)
Notified(response, email) == Merge(response, [email |-> email])

\* adminFeedback and adminNote of a request body: absent, and a note
AdminNotes == {<<>>, <<"a">>}

\* AppendFeedback, the note put in the place of the log
AppendFeedbackReplacing(old, note) == Trim(note)

\* `${old || ''}\n${note}`.trim()
AppendFeedback(old, note) == Trim(old \o <<"\n">> \o note)

\* the notes whose result stays within the modelled length of adminFeedback
FitsFeedback(coll, id, note) ==
  IF note = <<>> \/ ~Exists(coll, id) THEN TRUE
  ELSE Len(coll[id].adminFeedback) + 1 + Len(note) <= MaxFeedbackLen

\* updates.warehouseInfo of PUT /exchange-requests/:id/status
WarehouseInfo(warehouseData) ==
  [name |-> warehouseData.name, addressLine1 |-> warehouseData.addressLine1,
   addressLine2 |-> warehouseData.addressLine2, city |-> warehouseData.city,
   state |-> warehouseData.state, postalCode |-> warehouseData.postalCode,
   country |-> warehouseData.country, contactPerson |-> warehouseData.contactPerson,
   contactPhone |-> warehouseData.contactPhone]

\* NoCreditAssigned, the test left out
NoCreditAssignedNever(exchangeRequest) == FALSE

\* !exchangeRequest.creditAmount || exchangeRequest.creditAmount <= 0
NoCreditAssigned(exchangeRequest) ==
  ~TruthyNumber(exchangeRequest, "creditAmount") \/ exchangeRequest.creditAmount <= 0

\* StatusGuard, an approval not asking for a pending request
StatusGuardApprovingAny(status, exchangeRequest, warehouseId) ==
  IF status = "completed" /\ exchangeRequest.status # "approved"
    THEN "Can only complete approved exchange requests"
  ELSE IF status = "completed" /\ NoCreditAssigned(exchangeRequest)
    THEN "Cannot complete exchange request without assigning credit"
  ELSE IF status = "approved" /\ warehouseId = 0
    THEN "Warehouse selection is required for approval"
  ELSE ""

\* The guards of PUT /exchange-requests/:id/status on the stored request, in
\* order: the error of the first one that refuses, "" when none does
StatusGuard(status, exchangeRequest, warehouseId) ==
  IF status = "approved" /\ exchangeRequest.status # "pending"
    THEN "Can only approve pending exchange requests"
  ELSE IF status = "completed" /\ exchangeRequest.status # "approved"
    THEN "Can only complete approved exchange requests"
  ELSE IF status = "completed" /\ NoCreditAssigned(exchangeRequest)
    THEN "Cannot complete exchange request without assigning credit"
  ELSE IF status = "approved" /\ warehouseId = 0
    THEN "Warehouse selection is required for approval"
  ELSE ""

\* the updates of PUT /exchange-requests/:id/status, the warehouse found
StatusUpdates(status, adminFeedback, exchangeRequest, warehouseId) ==
  LET base == [status |-> status,
               adminFeedback |-> IF adminFeedback # <<>>
                                   THEN AppendFeedback(exchangeRequest.adminFeedback, adminFeedback)
                                   ELSE exchangeRequest.adminFeedback,
               updatedAt |-> Timestamp(now)]
      withWarehouse == IF status = "approved"
                         THEN Merge(base, [warehouseId |-> warehouseId,
                                           warehouseInfo |-> WarehouseInfo(warehouses[warehouseId])])
                         ELSE base
  IN IF status = "completed"
       THEN Merge(withWarehouse, [transitStatus |-> "completed"])
       ELSE withWarehouse

\* PUT /api/admin/exchange-requests/:id/status; warehouseId 0 is none given
UpdateStatus(uid, id, status, adminFeedback, warehouseId, email) ==
  /\ FitsFeedback(exchange_requests, id, adminFeedback)
  /\ IF ~IsAdminUser(uid)
       THEN /\ res' = Notified(Requested(status, "status", id, 403, "Admin access required"), "none")
            /\ UNCHANGED exchange_requests
     ELSE IF status \notin {"approved", "declined", "completed"}
       THEN /\ res' = Notified(Requested(status, "status", id, 400, "Invalid status value"), "none")
            /\ UNCHANGED exchange_requests
     ELSE IF ~Exists(exchange_requests, id)
       THEN /\ res' = Notified(Requested(status, "status", id, 404, "Exchange request not found"), "none")
            /\ UNCHANGED exchange_requests
     ELSE IF StatusGuard(status, exchange_requests[id], warehouseId) # ""
       THEN /\ res' = Notified(Requested(status, "status", id, 400,
                                          StatusGuard(status, exchange_requests[id], warehouseId)), "none")
            /\ UNCHANGED exchange_requests
     ELSE IF status = "approved" /\ ~Exists(warehouses, warehouseId)
       THEN /\ res' = Notified(Requested(status, "status", id, 404, "Selected warehouse not found"), "none")
            /\ UNCHANGED exchange_requests
     ELSE LET updatedDoc == Update(exchange_requests, id,
                                   StatusUpdates(status, adminFeedback, exchange_requests[id],
                                                 warehouseId))
              sent == IF status = "approved" THEN email ELSE "none"
              answer == Formatted(updatedDoc[id],
                                  IF status = "approved" THEN AfterNotification(email, 200) ELSE 200,
                                  "Failed to update exchange request status")
          IN /\ exchange_requests' = updatedDoc
             /\ res' = Notified(Requested(status, "status", id, answer.status, answer.error), sent)
  /\ UNCHANGED <<nextRequestId, warehouses, nextWarehouseId, credit_history, metafields, now, customerCache, calls, authVars>>

\* TransitGuard, the shipping details not looked at
TransitGuardWithoutDetails(transitStatus, exchangeRequest) ==
  IF exchangeRequest.status # "approved"
    THEN "Can only update transit status for approved exchange requests"
  ELSE IF transitStatus = "completed" /\ NoCreditAssigned(exchangeRequest)
    THEN "Cannot complete exchange without assigning credit"
  ELSE ""

\* The guards of PUT /exchange-requests/:id/transit on the stored request
TransitGuard(transitStatus, exchangeRequest) ==
  IF exchangeRequest.status # "approved"
    THEN "Can only update transit status for approved exchange requests"
  ELSE IF transitStatus = "received" /\ ~TruthyObject(exchangeRequest, "shippingDetails")
    THEN "Cannot mark as received without shipping details"
  ELSE IF transitStatus = "received" /\ exchangeRequest.transitStatus # "shipping"
            /\ ~TruthyObject(exchangeRequest, "shippingDetails")
    THEN "Item must have shipping details before it can be received"
  ELSE IF transitStatus = "completed" /\ NoCreditAssigned(exchangeRequest)
    THEN "Cannot complete exchange without assigning credit"
  ELSE ""

\* TransitUpdates, the overall status left as it is
TransitUpdatesKeepingStatus(transitStatus, adminNote, exchangeRequest) ==
  IF adminNote # <<>>
    THEN [transitStatus |-> transitStatus, updatedAt |-> Timestamp(now),
          adminFeedback |-> AppendFeedback(exchangeRequest.adminFeedback, adminNote)]
    ELSE [transitStatus |-> transitStatus, updatedAt |-> Timestamp(now)]

\* the updates of PUT /exchange-requests/:id/transit
TransitUpdates(transitStatus, adminNote, exchangeRequest) ==
  LET base == [transitStatus |-> transitStatus, updatedAt |-> Timestamp(now)]
      withNote == IF adminNote # <<>>
                    THEN Merge(base, [adminFeedback |->
                                        AppendFeedback(exchangeRequest.adminFeedback, adminNote)])
                    ELSE base
  IN IF transitStatus = "completed"
       THEN Merge(withNote, [status |-> "completed"])
       ELSE withNote

\* PUT /api/admin/exchange-requests/:id/transit
UpdateTransit(uid, id, transitStatus, adminNote, email) ==
  /\ FitsFeedback(exchange_requests, id, adminNote)
  /\ IF ~IsAdminUser(uid)
       THEN /\ res' = Notified(Requested(transitStatus, "transit", id, 403, "Admin access required"), "none")
            /\ UNCHANGED exchange_requests
     ELSE IF transitStatus \notin {"shipping", "received", "completed"}
       THEN /\ res' = Notified(Requested(transitStatus, "transit", id, 400, "Invalid transit status"), "none")
            /\ UNCHANGED exchange_requests
     ELSE IF ~Exists(exchange_requests, id)
       THEN /\ res' = Notified(Requested(transitStatus, "transit", id, 404, "Exchange request not found"), "none")
            /\ UNCHANGED exchange_requests
     ELSE IF TransitGuard(transitStatus, exchange_requests[id]) # ""
       THEN /\ res' = Notified(Requested(transitStatus, "transit", id, 400,
                                          TransitGuard(transitStatus, exchange_requests[id])), "none")
            /\ UNCHANGED exchange_requests
     ELSE LET updatedDoc == Update(exchange_requests, id,
                                   TransitUpdates(transitStatus, adminNote, exchange_requests[id]))
              sent == IF transitStatus = "received" THEN email ELSE "none"
              answer == Formatted(updatedDoc[id],
                                  IF transitStatus = "received" THEN AfterNotification(email, 200) ELSE 200,
                                  "Failed to update transit status")
          IN /\ exchange_requests' = updatedDoc
             /\ res' = Notified(Requested(transitStatus, "transit", id, answer.status, answer.error), sent)
  /\ UNCHANGED <<nextRequestId, warehouses, nextWarehouseId, credit_history, metafields, now, customerCache, calls, authVars>>
\* --------------------------------------------------------- Shopify client
\* What a Shopify call does: answers, or fails (network, rate limit, 5xx)
ShopifyStates == {"ok", "searchFails", "metafieldsFail"}

\* milliseconds for which findCustomerByEmail serves an entry of customerCache
CACHE_TTL == 60000

\* CacheValid, an entry served whatever its age
CacheValidForever(cache, email, time) == email \in DOMAIN cache

\* customerCache.has(email) && now - cached.timestamp < CACHE_TTL
CacheValid(cache, email, time) ==
  email \in DOMAIN cache /\ time - cache[email].timestamp < CACHE_TTL

\* findCustomerByEmail called at time: the customer it returns or the code of
\* the error it throws, the customerCache it leaves, and where the answer
\* came from.  An entry that is no longer valid is deleted before the search.
FindCustomerByEmail(cache, email, time, shopify) ==
  IF CacheValid(cache, email, time)
    THEN [returns |-> cache[email].data, cache |-> cache, lookup |-> "cache"]
  ELSE IF shopify = "searchFails"
    THEN [throws |-> "SHOPIFY_API_ERROR", cache |-> Delete(cache, email), lookup |-> "shop"]
  ELSE IF SearchCustomers(email) # <<>>
    THEN [returns |-> SearchCustomers(email)[1],
          cache |-> Add(cache, email, [timestamp |-> time, data |-> SearchCustomers(email)[1]]),
          lookup |-> "shop"]
  ELSE [throws |-> "SHOPIFY_CUSTOMER_NOT_FOUND", cache |-> Delete(cache, email), lookup |-> "shop"]

\* What Shopify can do while findCustomerByEmail runs: the search cannot fail
\* when the cache answers, for it is not made
LookupStates(cache, email, time) ==
  IF CacheValid(cache, email, time) THEN ShopifyStates \ {"searchFails"} ELSE ShopifyStates

\* POST /api/shopify/check-customer.  findCustomerByEmail throws for an email
\* the shop does not know, so the handler's 404 is never sent.
CheckCustomer(email, shopify) ==
  LET found == FindCustomerByEmail(customerCache, email, now, shopify)
  IN /\ IF email = ""
          THEN /\ res' = Respond("check", 0, 400, "Email is required")
               /\ UNCHANGED customerCache
        ELSE /\ customerCache' = found.cache
             /\ res' = Merge(IF "throws" \in DOMAIN found
                               THEN Respond("check", 0, 500, "Failed to check Shopify customer")
                               ELSE Respond("check", 0, 200, ""),
                             [checked |-> email, lookup |-> found.lookup])
     /\ UNCHANGED <<exchange_requests, nextRequestId, warehouses, nextWarehouseId, credit_history, metafields, now, calls, authVars>>

\* currentPoints of updateCustomerLoyaltyPoints: 0 without a metafield
CurrentPoints(value) == IF value = NoMetafield THEN 0 ELSE ParseIntOrZero(value)

\* NewTotalPoints, the current points forgotten
NewTotalPointsOverwriting(currentPoints, formattedPoints) == formattedPoints

\* newTotalPoints of updateCustomerLoyaltyPoints
NewTotalPoints(currentPoints, formattedPoints) == currentPoints + formattedPoints

\* updateCustomerLoyaltyPoints: the value it writes to the metafield and returns
UpdateCustomerLoyaltyPoints(value, points) ==
  NumberToString(NewTotalPoints(CurrentPoints(value), points))

\* creditAmount of a request body: -1, 0, 1.5, 2, 10 and a string that is no number
CreditBodies == {Num(0 - 2), Num(0), Num(3), Num(4), Num(20), NaN}

\* !numericCreditAmount || numericCreditAmount <= 0 || isNaN(numericCreditAmount)
InvalidCreditAmount(numericCreditAmount) ==
  numericCreditAmount = NaN \/ numericCreditAmount.halves <= 0

\* CreditGuard, the transitStatus not looked at
CreditGuardStatusOnly(exchangeData) == exchangeData.status # "approved"

\* CreditGuard, refusing a request that already holds credit
CreditGuardOnce(exchangeData) ==
  exchangeData.status # "approved" \/ exchangeData.transitStatus # "received"
    \/ exchangeData.creditAmount > 0

\* status and transitStatus that PUT /exchange-requests/:id/credit asks for
CreditGuard(exchangeData) ==
  exchangeData.status # "approved" \/ exchangeData.transitStatus # "received"

\* updateData of PUT /exchange-requests/:id/credit
CreditUpdateData(uid, numericCreditAmount, totalLoyaltyPoints, customer) ==
  [creditAmount |-> numericCreditAmount, totalLoyaltyPoints |-> totalLoyaltyPoints,
   creditAssignedAt |-> Timestamp(now), creditAssignedBy |-> uid, feedback |-> "", loyaltyPointsSuccess |-> TRUE,
   creditCurrency |-> "INR", shopifyCustomerId |-> customer.id]

\* the credit_history record of PUT /exchange-requests/:id/credit
CreditHistoryRecord(uid, id, exchangeData, numericCreditAmount, totalLoyaltyPoints, customer) ==
  [userId |-> exchangeData.userId, exchangeRequestId |-> id, amount |-> numericCreditAmount,
   currency |-> "INR", type |-> "exchange_credit", createdAt |-> Timestamp(now), assignedBy |-> uid,
   loyaltyPointsSuccess |-> TRUE, shopifyCustomerId |-> customer.id,
   totalLoyaltyPoints |-> totalLoyaltyPoints]

\* AddHistory, the record written over the last one
AddHistoryOverwriting(history, record) ==
  IF history = <<>> THEN <<record>> ELSE [history EXCEPT ![Len(history)] = record]

\* db.collection('credit_history').add(record)
AddHistory(history, record) == Append(history, record)

\* What the writes of PUT /exchange-requests/:id/credit to Firestore do: both
\* succeed, the update of the exchange request throws, the add to
\* credit_history throws
FirestoreStates == {"ok", "updateFails", "addFails"}

\* CreditWrites, the ledger written after the store
CreditWritesStoreFirst(firestore) ==
  IF firestore = "updateFails" THEN {}
  ELSE IF firestore = "addFails" THEN {"request"}
  ELSE {"ledger", "request", "history"}

\* The writes PUT /exchange-requests/:id/credit has made when it answers, in
\* the order of its statements: the ledger, the exchange request, the
\* credit_history record.  A write that throws ends the handler.
CreditWrites(firestore) ==
  IF firestore = "updateFails" THEN {"ledger"}
  ELSE IF firestore = "addFails" THEN {"ledger", "request"}
  ELSE {"ledger", "request", "history"}

\* the response, with the amount the request asked for and what Shopify and
\* Firestore did while it was served ("none" when they were not called)
CreditRespond(id, code, error, creditAmount, shopify, firestore) ==
  Merge(Requested(creditAmount, "credit", id, code, error),
        [shopify |-> shopify, firestore |-> firestore])

\* PUT /api/admin/exchange-requests/:id/credit, served while Firestore does
\* what firestore says
AssignCredit(uid, id, creditAmount, firestore, email) ==
  LET numericCreditAmount == MathRound(creditAmount)
      rejected(code, error, shopify, cache) ==
        /\ res' = Notified(CreditRespond(id, code, error, creditAmount, shopify, "none"), "none")
        /\ customerCache' = cache
        /\ UNCHANGED <<exchange_requests, credit_history, metafields>>
  IN
  /\ IF ~IsAdminUser(uid)
       THEN rejected(403, "Admin access required", "none", customerCache)
     ELSE IF InvalidCreditAmount(numericCreditAmount)
       THEN rejected(400, "Invalid loyalty points amount", "none", customerCache)
     ELSE IF ~Exists(exchange_requests, id)
       THEN rejected(404, "Exchange request not found", "none", customerCache)
     ELSE IF CreditGuard(exchange_requests[id])
       THEN rejected(400, "Credit can only be assigned to approved and received exchange requests",
                     "none", customerCache)
     ELSE \E shopify \in LookupStates(customerCache, exchange_requests[id].userEmail, now) :
          LET exchangeData == exchange_requests[id]
              found == FindCustomerByEmail(customerCache, exchangeData.userEmail, now, shopify)
          IN IF "throws" \in DOMAIN found
               THEN rejected(500, "Failed to find customer in Shopify", shopify, found.cache)
             ELSE IF shopify = "metafieldsFail"
               THEN rejected(500, "Failed to update loyalty points in Shopify", shopify, found.cache)
             ELSE LET shopifyCustomer == found.returns
                      value == UpdateCustomerLoyaltyPoints(metafields[shopifyCustomer.id],
                                                           IntOf(numericCreditAmount))
                      totalLoyaltyPoints == ParseFloat(value)
                  IN LET writes == CreditWrites(firestore)
                     IN /\ totalLoyaltyPoints <= MaxPoints
                        /\ firestore = "ok" => Len(credit_history) < MaxHistory
                        /\ customerCache' = found.cache
                        /\ metafields' = IF "ledger" \in writes
                                           THEN [metafields EXCEPT ![shopifyCustomer.id] = value]
                                           ELSE metafields
                        /\ exchange_requests' =
                             IF "request" \in writes
                               THEN Update(exchange_requests, id,
                                           CreditUpdateData(uid, IntOf(numericCreditAmount),
                                                            totalLoyaltyPoints, shopifyCustomer))
                               ELSE exchange_requests
                        /\ credit_history' =
                             IF "history" \in writes
                               THEN AddHistory(credit_history,
                                               CreditHistoryRecord(uid, id, exchangeData,
                                                                   IntOf(numericCreditAmount),
                                                                   totalLoyaltyPoints, shopifyCustomer))
                               ELSE credit_history
                        /\ res' = IF firestore = "ok"
                                    THEN Notified(CreditRespond(id, AfterNotification(email, 200), "",
                                                                creditAmount, shopify, firestore), email)
                                    ELSE Notified(CreditRespond(id, 500, "Failed to assign loyalty points",
                                                                creditAmount, shopify, firestore), "none")
  /\ UNCHANGED <<nextRequestId, warehouses, nextWarehouseId, now, calls, authVars>>

\* ------------------------------------------------ credit, served at once
\* The handler of PUT /exchange-requests/:id/credit gives way at each await,
\* and Node serves other requests meanwhile.  calls holds, for each handler
\* that waits, where it is (pc) and its local variables.  The awaits before
\* the metafield is read are taken in one step, and so are those after it is
\* written: every behaviour of these three steps is one of the handler.

\* Up to the axios.get of updateCustomerLoyaltyPoints: the checks, the
\* exchange request, the customer, and the current value of the metafield
CreditRead(call, uid, id, creditAmount, shopify) ==
  LET numericCreditAmount == MathRound(creditAmount)
      rejected(code, error, how, cache) ==
        /\ res' = Notified(CreditRespond(id, code, error, creditAmount, how, "none"), "none")
        /\ customerCache' = cache
        /\ UNCHANGED calls
  IN
  /\ call \notin DOMAIN calls
  /\ IF ~IsAdminUser(uid)
       THEN rejected(403, "Admin access required", "none", customerCache)
     ELSE IF InvalidCreditAmount(numericCreditAmount)
       THEN rejected(400, "Invalid loyalty points amount", "none", customerCache)
     ELSE IF ~Exists(exchange_requests, id)
       THEN rejected(404, "Exchange request not found", "none", customerCache)
     ELSE IF CreditGuard(exchange_requests[id])
       THEN rejected(400, "Credit can only be assigned to approved and received exchange requests",
                     "none", customerCache)
     ELSE LET exchangeData == exchange_requests[id]
              found == FindCustomerByEmail(customerCache, exchangeData.userEmail, now, shopify)
          IN IF "throws" \in DOMAIN found
               THEN rejected(500, "Failed to find customer in Shopify", shopify, found.cache)
             ELSE IF shopify = "metafieldsFail"
               THEN rejected(500, "Failed to update loyalty points in Shopify", shopify, found.cache)
             ELSE /\ calls' = Add(calls, call,
                                  [pc |-> "read", uid |-> uid, id |-> id, creditAmount |-> creditAmount,
                                   exchangeData |-> exchangeData, shopifyCustomer |-> found.returns,
                                   currentPoints |-> CurrentPoints(metafields[found.returns.id])])
                  /\ customerCache' = found.cache
                  /\ UNCHANGED res
  /\ UNCHANGED <<exchange_requests, nextRequestId, warehouses, nextWarehouseId, credit_history, metafields, now, authVars>>

\* The axios.put or axios.post of updateCustomerLoyaltyPoints: the total
\* computed from the value that was read is written to the metafield
CreditWrite(call, shopify) ==
  /\ call \in DOMAIN calls
  /\ calls[call].pc = "read"
  /\ LET c == calls[call]
         value == NumberToString(NewTotalPoints(c.currentPoints, IntOf(MathRound(c.creditAmount))))
     IN IF shopify = "metafieldsFail"
          THEN /\ res' = Notified(CreditRespond(c.id, 500, "Failed to update loyalty points in Shopify",
                                                c.creditAmount, shopify, "none"), "none")
               /\ calls' = Delete(calls, call)
               /\ UNCHANGED metafields
        ELSE /\ metafields' = [metafields EXCEPT ![c.shopifyCustomer.id] = value]
             /\ calls' = Add(calls, call, Merge(c, [pc |-> "written", totalLoyaltyPoints |-> ParseFloat(value)]))
             /\ UNCHANGED res
  /\ UNCHANGED <<exchange_requests, nextRequestId, warehouses, nextWarehouseId, credit_history, now, customerCache, authVars>>

\* From the update of the exchange request to the response.  The update of a
\* document that was deleted meanwhile throws.
CreditFinish(call, firestore, email) ==
  /\ call \in DOMAIN calls
  /\ calls[call].pc = "written"
  /\ LET c == calls[call]
         points == IntOf(MathRound(c.creditAmount))
         done == IF Exists(exchange_requests, c.id) THEN firestore ELSE "updateFails"
         writes == CreditWrites(done)
     IN /\ exchange_requests' =
             IF "request" \in writes
               THEN Update(exchange_requests, c.id,
                           CreditUpdateData(c.uid, points, c.totalLoyaltyPoints, c.shopifyCustomer))
               ELSE exchange_requests
        /\ credit_history' =
             IF "history" \in writes
               THEN AddHistory(credit_history,
                               CreditHistoryRecord(c.uid, c.id, c.exchangeData, points,
                                                   c.totalLoyaltyPoints, c.shopifyCustomer))
               ELSE credit_history
        /\ res' = IF done = "ok"
                    THEN Notified(CreditRespond(c.id, AfterNotification(email, 200), "",
                                                c.creditAmount, "ok", done), email)
                    ELSE Notified(CreditRespond(c.id, 500, "Failed to assign loyalty points",
                                                c.creditAmount, "ok", done), "none")
        /\ calls' = Delete(calls, call)
  /\ UNCHANGED <<nextRequestId, warehouses, nextWarehouseId, metafields, now, customerCache, authVars>>

\* ------------------------------------- cancel and set-status, served at once
\* DELETE /api/exchange/:id and PUT /exchange-requests/:id/status read the
\* request, test what they read, and write after a further await.

\* DELETE /api/exchange/:id up to its docRef.delete()
CancelRead(call, uid, id) ==
  /\ call \notin DOMAIN calls
  /\ IF ~Exists(exchange_requests, id)
       THEN /\ res' = Respond("cancel", id, 404, "Exchange request not found")
            /\ UNCHANGED calls
     ELSE IF NotOwner(exchange_requests[id], uid)
       THEN /\ res' = Respond("cancel", id, 403, "Not authorized")
            /\ UNCHANGED calls
     ELSE IF CancelGuard(exchange_requests[id])
       THEN /\ res' = Respond("cancel", id, 400, "Cannot cancel once processed")
            /\ UNCHANGED calls
     ELSE /\ calls' = Add(calls, call, [pc |-> "cancel", uid |-> uid, id |-> id])
          /\ UNCHANGED res
  /\ UNCHANGED <<exchange_requests, nextRequestId, warehouses, nextWarehouseId, credit_history, metafields, now, customerCache, authVars>>

\* docRef.delete() of DELETE /api/exchange/:id and its response; deleting a
\* document that is gone succeeds
CancelDelete(call) ==
  /\ call \in DOMAIN calls
  /\ calls[call].pc = "cancel"
  /\ exchange_requests' = Delete(exchange_requests, calls[call].id)
  /\ res' = Respond("cancel", calls[call].id, 200, "")
  /\ calls' = Delete(calls, call)
  /\ UNCHANGED <<nextRequestId, warehouses, nextWarehouseId, credit_history, metafields, now, customerCache, authVars>>

\* PUT /exchange-requests/:id/status up to its docRef.update(updates): the
\* checks on the request it read, and the updates built from it
StatusRead(call, uid, id, status, adminFeedback, warehouseId) ==
  LET rejected(code, error) ==
        /\ res' = Notified(Requested(status, "status", id, code, error), "none")
        /\ UNCHANGED calls
  IN
  /\ call \notin DOMAIN calls
  /\ FitsFeedback(exchange_requests, id, adminFeedback)
  /\ IF ~IsAdminUser(uid)
       THEN rejected(403, "Admin access required")
     ELSE IF status \notin {"approved", "declined", "completed"}
       THEN rejected(400, "Invalid status value")
     ELSE IF ~Exists(exchange_requests, id)
       THEN rejected(404, "Exchange request not found")
     ELSE IF StatusGuard(status, exchange_requests[id], warehouseId) # ""
       THEN rejected(400, StatusGuard(status, exchange_requests[id], warehouseId))
     ELSE IF status = "approved" /\ ~Exists(warehouses, warehouseId)
       THEN rejected(404, "Selected warehouse not found")
     ELSE /\ calls' = Add(calls, call,
                          [pc |-> "status", id |-> id, status |-> status,
                           updates |-> StatusUpdates(status, adminFeedback, exchange_requests[id],
                                                     warehouseId)])
          /\ UNCHANGED res
  /\ UNCHANGED <<exchange_requests, nextRequestId, warehouses, nextWarehouseId, credit_history, metafields, now, customerCache, authVars>>

\* docRef.update(updates) of PUT /exchange-requests/:id/status, the mail and
\* the response; the update of a document that is gone throws
StatusWrite(call, email) ==
  /\ call \in DOMAIN calls
  /\ calls[call].pc = "status"
  /\ LET c == calls[call]
     IN IF ~Exists(exchange_requests, c.id)
          THEN /\ res' = Notified(Requested(c.status, "status", c.id, 500,
                                            "Failed to update exchange request status"), "none")
               /\ UNCHANGED exchange_requests
        ELSE LET updatedDoc == Update(exchange_requests, c.id, c.updates)
                 sent == IF c.status = "approved" THEN email ELSE "none"
                 answer == Formatted(updatedDoc[c.id],
                                     IF c.status = "approved" THEN AfterNotification(email, 200) ELSE 200,
                                     "Failed to update exchange request status")
             IN /\ exchange_requests' = updatedDoc
                /\ res' = Notified(Requested(c.status, "status", c.id, answer.status, answer.error), sent)
  /\ calls' = Delete(calls, call)
  /\ UNCHANGED <<nextRequestId, warehouses, nextWarehouseId, credit_history, metafields, now, customerCache, authVars>>

\* ------------------------------------------------------------- warehouses
\* Request bodies of POST /warehouses: complete, and lacking a required field
WarehouseBodies ==
  {[name |-> n, addressLine1 |-> "l1", city |-> "ci", state |-> "st",
    postalCode |-> "pc", country |-> "co"] : n \in {"w1", ""}}

\* Request bodies of PUT /warehouses/:id
WarehouseUpdateBodies == {[name |-> "w2"]}

\* POST /api/admin/warehouses
CreateWarehouse(uid, body) ==
  /\ nextWarehouseId <= MaxWarehouses
  /\ IF ~IsAdminUser(uid)
       THEN /\ res' = Respond("warehouse.create", 0, 403, "Admin access required")
            /\ UNCHANGED <<warehouses, nextWarehouseId>>
     ELSE IF body.name = "" \/ body.addressLine1 = "" \/ body.city = "" \/ body.state = ""
               \/ body.postalCode = "" \/ body.country = ""
       THEN /\ res' = Respond("warehouse.create", 0, 400, "Missing required fields")
            /\ UNCHANGED <<warehouses, nextWarehouseId>>
     ELSE /\ warehouses' =
               Add(warehouses, nextWarehouseId,
                   Merge(body, [addressLine2 |-> "", contactPerson |-> "",
                                contactPhone |-> "", isActive |-> TRUE]))
          /\ nextWarehouseId' = nextWarehouseId + 1
          /\ res' = Respond("warehouse.create", nextWarehouseId, 201, "")
  /\ UNCHANGED <<exchange_requests, nextRequestId, credit_history, metafields, now, customerCache, calls, authVars>>

\* PUT /api/admin/warehouses/:id
UpdateWarehouse(uid, id, body) ==
  /\ IF ~IsAdminUser(uid)
       THEN /\ res' = Respond("warehouse.update", id, 403, "Admin access required")
            /\ UNCHANGED warehouses
     ELSE IF ~Exists(warehouses, id)
       THEN /\ res' = Respond("warehouse.update", id, 404, "Warehouse not found")
            /\ UNCHANGED warehouses
     ELSE /\ warehouses' = Update(warehouses, id, body)
          /\ res' = Respond("warehouse.update", id, 200, "")
  /\ UNCHANGED <<exchange_requests, nextRequestId, nextWarehouseId, credit_history, metafields, now, customerCache, calls, authVars>>

\* DELETE /api/admin/warehouses/:id
DeleteWarehouse(uid, id) ==
  /\ IF ~IsAdminUser(uid)
       THEN /\ res' = Respond("warehouse.delete", id, 403, "Admin access required")
            /\ UNCHANGED warehouses
     ELSE IF ~Exists(warehouses, id)
       THEN /\ res' = Respond("warehouse.delete", id, 404, "Warehouse not found")
            /\ UNCHANGED warehouses
     ELSE /\ warehouses' = Delete(warehouses, id)
          /\ res' = Respond("warehouse.delete", id, 200, "")
  /\ UNCHANGED <<exchange_requests, nextRequestId, nextWarehouseId, credit_history, metafields, now, customerCache, calls, authVars>>

\* --------------------------------------------------------------- sessions
\* No Authorization header, or one that is no Bearer token
NoToken == 0

\* date.setDate(date.getDate() + n), in milliseconds
Days(n) == n * 86400000

\* The id add() gives the users document made for an email; login and
\* verify-email make one only when no document holds the email
UidOf(email) == CASE email = "e1" -> "u1" [] email = "e2" -> "u2" [] OTHER -> "adm"

\* users.where('email', '==', email).limit(1)
UsersWithEmail(email) == {uid \in DOMAIN users : users[uid].email = email}

\* sessionData of POST /login and POST /verify-email, made at the clock's time
SessionData(userId, token) ==
  [userId |-> userId, token |-> token, createdAt |-> Timestamp(now),
   expiresAt |-> Timestamp(now + Days(7)), refreshDeadline |-> Timestamp(now + Days(6))]

\* the fields sessionAuthMiddleware writes when it rotates a session
Rotation(newToken) ==
  [token |-> newToken, expiresAt |-> Timestamp(now + Days(7)),
   refreshDeadline |-> Timestamp(now + Days(6)), lastRotatedAt |-> Timestamp(now)]

\* sessions.where('token', '==', token).limit(1)
SessionsWithToken(coll, token) == {id \in DOMAIN coll : coll[id].token = token}

\* session.expiresAt.toDate() < new Date(), never true
ExpiredNever(session) == FALSE

\* session.expiresAt.toDate() < new Date()
Expired(session) == session.expiresAt.date < now

\* session.refreshDeadline.toDate() < now
NeedsRotation(session) == session.refreshDeadline.date < now

\* req.user: { uid, email, ...userDoc.data(), sessionId }
ReqUser(uid, sessionId) ==
  Merge(Merge([uid |-> uid, email |-> users[uid].email], users[uid]), [sessionId |-> sessionId])

\* sessionAuthMiddleware for a request that bears token: the status and error
\* it answers with (status 0: next() is called), the sessions collection it
\* leaves, the token it puts in X-New-Token (NoToken: none), and req.user
SessionAuth(token) ==
  LET found == SessionsWithToken(sessions, token)
      sessionId == CHOOSE id \in found : \A other \in found : id <= other
      session == sessions[sessionId]
      rotated == IF NeedsRotation(session)
                   THEN Update(sessions, sessionId, Rotation(nextToken))
                   ELSE sessions
      newToken == IF NeedsRotation(session) THEN nextToken ELSE NoToken
  IN IF token = NoToken
       THEN [status |-> 401, error |-> "No token provided", sessions |-> sessions, newToken |-> NoToken]
     ELSE IF found = {}
       THEN [status |-> 401, error |-> "Invalid token", sessions |-> sessions, newToken |-> NoToken]
     ELSE IF Expired(session)
       THEN [status |-> 401, error |-> "Session expired", sessions |-> Delete(sessions, sessionId),
             newToken |-> NoToken]
     ELSE IF ~Exists(users, session.userId)
       THEN [status |-> 401, error |-> "User not found", sessions |-> rotated, newToken |-> newToken]
     ELSE [status |-> 0, error |-> "", sessions |-> rotated, newToken |-> newToken,
           user |-> ReqUser(session.userId, sessionId)]

\* generateSessionToken was called by the middleware
TokensMade(auth) == IF auth.newToken = NoToken THEN 0 ELSE 1

\* the response of a route of the session layer, with the token the request
\* bore and the token the response hands to the caller (sessionToken of the
\* body, or the X-New-Token header)
AuthRespond(op, code, error, bearer, handed) ==
  Merge(Respond(op, 0, code, error), [bearer |-> bearer, handed |-> handed])

\* a route behind sessionAuthMiddleware answered by the middleware itself
Unauthorized(op, token, auth) ==
  /\ res' = AuthRespond(op, auth.status, auth.error, token, auth.newToken)
  /\ sessions' = auth.sessions
  /\ nextToken' = nextToken + TokensMade(auth)
  /\ UNCHANGED <<users, nextSessionId>>

\* POST /api/auth/login
Login(email, shopify) ==
  LET found == FindCustomerByEmail(customerCache, email, now, shopify)
      known == UsersWithEmail(email)
      userId == IF known = {} THEN UidOf(email) ELSE CHOOSE uid \in known : TRUE
      newUser == [email |-> email, shopifyId |-> found.returns.id, createdAt |-> Timestamp(now),
                  updatedAt |-> Timestamp(now), isAdmin |-> FALSE]
  IN
  /\ IF email = ""
       THEN /\ res' = AuthRespond("login", 400, "Email is required", NoToken, NoToken)
            /\ UNCHANGED <<customerCache, authVars>>
     ELSE IF "throws" \in DOMAIN found
       THEN /\ res' = IF found.throws = "SHOPIFY_CUSTOMER_NOT_FOUND"
                        THEN AuthRespond("login", 422, "Email not found in Shopify", NoToken, NoToken)
                        ELSE AuthRespond("login", 500, "Error verifying customer with Shopify",
                                         NoToken, NoToken)
            /\ customerCache' = found.cache
            /\ UNCHANGED authVars
     ELSE /\ customerCache' = found.cache
          /\ users' = IF known = {} THEN Add(users, userId, newUser)
                      ELSE IF "shopifyId" \in DOMAIN users[userId]
                                /\ users[userId].shopifyId = found.returns.id
                        THEN users
                      ELSE Update(users, userId, [shopifyId |-> found.returns.id,
                                                  updatedAt |-> Timestamp(now)])
          /\ sessions' = Add(sessions, nextSessionId, SessionData(userId, nextToken))
          /\ nextSessionId' = nextSessionId + 1
          /\ nextToken' = nextToken + 1
          /\ res' = AuthRespond("login", 200, "", NoToken, nextToken)
  /\ UNCHANGED <<storeVars, now>>

\* token of the body of POST /verify-email: the one that was mailed, one that
\* was not, none
VerifyTokens == {"mailed", "forged", ""}

\* validToken of POST /api/auth/verify-email: set to true whatever the token
ValidToken(token) == TRUE

\* POST /api/auth/verify-email
VerifyEmail(email, token) ==
  LET known == UsersWithEmail(email)
      userId == IF known = {} THEN UidOf(email) ELSE CHOOSE uid \in known : TRUE
      newUser == [email |-> email, emailVerified |-> TRUE, createdAt |-> Timestamp(now),
                  updatedAt |-> Timestamp(now), isAdmin |-> FALSE]
      answered(code, error, handed) ==
        res' = Merge(AuthRespond("verify", code, error, NoToken, handed),
                     [token |-> token, forEmail |-> email])
  IN
  /\ IF email = "" \/ token = ""
       THEN answered(400, "Email and token are required", NoToken) /\ UNCHANGED authVars
     ELSE IF ~ValidToken(token)
       THEN answered(401, "Invalid or expired token", NoToken) /\ UNCHANGED authVars
     ELSE /\ users' = IF known = {} THEN Add(users, userId, newUser)
                      ELSE Update(users, userId, [emailVerified |-> TRUE, updatedAt |-> Timestamp(now)])
          /\ sessions' = Add(sessions, nextSessionId, SessionData(userId, nextToken))
          /\ nextSessionId' = nextSessionId + 1
          /\ nextToken' = nextToken + 1
          /\ answered(200, "", nextToken)
  /\ UNCHANGED <<storeVars, now, customerCache>>

\* GET /api/auth/profile
GetProfile(token) ==
  LET auth == SessionAuth(token)
  IN /\ IF auth.status # 0 THEN Unauthorized("profile", token, auth)
        ELSE /\ res' = AuthRespond("profile", 200, "", token, auth.newToken)
             /\ sessions' = auth.sessions
             /\ nextToken' = nextToken + TokensMade(auth)
             /\ UNCHANGED <<users, nextSessionId>>
     /\ UNCHANGED <<storeVars, now, customerCache>>

\* POST /api/auth/logout
Logout(token) ==
  LET auth == SessionAuth(token)
  IN /\ IF auth.status # 0 THEN Unauthorized("logout", token, auth)
        ELSE /\ res' = AuthRespond("logout", 200, "", token, auth.newToken)
             /\ sessions' = Delete(auth.sessions, auth.user.sessionId)
             /\ nextToken' = nextToken + TokensMade(auth)
             /\ UNCHANGED <<users, nextSessionId>>
     /\ UNCHANGED <<storeVars, now, customerCache>>

\* sessions.where('userId', '==', req.user.uid) of POST /logout-all
SessionsOfUser(coll, user) == {id \in DOMAIN coll : coll[id].userId = user.uid}

\* POST /api/auth/logout-all
LogoutAll(token) ==
  LET auth == SessionAuth(token)
  IN /\ IF auth.status # 0 THEN Unauthorized("logout-all", token, auth)
        ELSE /\ res' = AuthRespond("logout-all", 200, "", token, auth.newToken)
             /\ sessions' = [id \in DOMAIN auth.sessions \ SessionsOfUser(auth.sessions, auth.user)
                               |-> auth.sessions[id]]
             /\ nextToken' = nextToken + TokensMade(auth)
             /\ UNCHANGED <<users, nextSessionId>>
     /\ UNCHANGED <<storeVars, now, customerCache>>

\* Request bodies of PUT /api/auth/profile: a name, and an attempt on isAdmin
ProfileBodies == {[name |-> "n1"], [name |-> "", isAdmin |-> TRUE]}

\* updateData of PUT /api/auth/profile: updatedAt, and name and phone if given
ProfileUpdateData(body) ==
  Merge(Merge([updatedAt |-> Timestamp(now)],
              IF TruthyString(body, "name") THEN [name |-> body.name] ELSE <<>>),
        IF TruthyString(body, "phone") THEN [phone |-> body.phone] ELSE <<>>)

\* PUT /api/auth/profile
UpdateProfile(token, body) ==
  LET auth == SessionAuth(token)
  IN /\ IF auth.status # 0 THEN Unauthorized("profile.update", token, auth)
        ELSE /\ res' = AuthRespond("profile.update", 200, "", token, auth.newToken)
             /\ users' = Update(users, auth.user.uid, ProfileUpdateData(body))
             /\ sessions' = auth.sessions
             /\ nextToken' = nextToken + TokensMade(auth)
             /\ UNCHANGED nextSessionId
     /\ UNCHANGED <<storeVars, now, customerCache>>

\* adminMiddleware, letting everyone through
NotAdminNever(user) == FALSE

\* !req.user || !req.user.isAdmin of adminMiddleware
NotAdmin(user) == ~("isAdmin" \in DOMAIN user /\ user.isAdmin)

\* POST /api/auth/make-admin; userId "" is none given
MakeAdmin(token, userId) ==
  LET auth == SessionAuth(token)
      answered(code, error) ==
        /\ res' = Merge(AuthRespond("make-admin", code, error, token, auth.newToken),
                        [userId |-> userId])
        /\ sessions' = auth.sessions
        /\ nextToken' = nextToken + TokensMade(auth)
        /\ UNCHANGED nextSessionId
  IN /\ IF auth.status # 0 THEN Unauthorized("make-admin", token, auth)
        ELSE IF NotAdmin(auth.user)
          THEN answered(403, "Forbidden - Admin access required") /\ UNCHANGED users
        ELSE IF userId = ""
          THEN answered(400, "User ID is required") /\ UNCHANGED users
        ELSE IF ~Exists(users, userId)
          THEN answered(404, "User not found") /\ UNCHANGED users
        ELSE /\ answered(200, "")
             /\ users' = Update(users, userId, [isAdmin |-> TRUE, updatedAt |-> Timestamp(now)])
     /\ UNCHANGED <<storeVars, now, customerCache>>

\* ------------------------------------------- sessions, served at once
\* sessionAuthMiddleware up to its update of the session: the query by token
\* and the test of expiresAt on the session it read
AuthRead(call, token) ==
  LET found == SessionsWithToken(sessions, token)
      sessionId == CHOOSE id \in found : \A other \in found : id <= other
  IN /\ call \notin DOMAIN calls
     /\ IF token = NoToken
          THEN /\ res' = AuthRespond("profile", 401, "No token provided", token, NoToken)
               /\ UNCHANGED <<sessions, calls>>
        ELSE IF found = {}
          THEN /\ res' = AuthRespond("profile", 401, "Invalid token", token, NoToken)
               /\ UNCHANGED <<sessions, calls>>
        ELSE IF Expired(sessions[sessionId])
          THEN /\ res' = AuthRespond("profile", 401, "Session expired", token, NoToken)
               /\ sessions' = Delete(sessions, sessionId)
               /\ UNCHANGED calls
        ELSE /\ calls' = Add(calls, call, [pc |-> "auth", token |-> token, sessionId |-> sessionId,
                                           session |-> sessions[sessionId]])
             /\ UNCHANGED <<sessions, res>>
     /\ UNCHANGED <<exchange_requests, nextRequestId, warehouses, nextWarehouseId, credit_history,
                    metafields, now, customerCache, users, nextSessionId, nextToken>>

\* The rest of sessionAuthMiddleware and GET /api/auth/profile: the session
\* that was read is rotated if it is past its refreshDeadline (the update of
\* a session that is gone throws), the user is read, the profile is sent
AuthFinish(call) ==
  /\ call \in DOMAIN calls
  /\ calls[call].pc = "auth"
  /\ LET c == calls[call]
         rotate == NeedsRotation(c.session)
         newToken == IF rotate THEN nextToken ELSE NoToken
     IN IF rotate /\ ~Exists(sessions, c.sessionId)
          THEN /\ res' = AuthRespond("profile", 500, "Internal server error", c.token, NoToken)
               /\ nextToken' = nextToken + 1
               /\ UNCHANGED sessions
        ELSE /\ sessions' = IF rotate THEN Update(sessions, c.sessionId, Rotation(nextToken))
                            ELSE sessions
             /\ nextToken' = IF rotate THEN nextToken + 1 ELSE nextToken
             /\ res' = IF Exists(users, c.session.userId)
                         THEN AuthRespond("profile", 200, "", c.token, newToken)
                         ELSE AuthRespond("profile", 401, "User not found", c.token, newToken)
  /\ calls' = Delete(calls, call)
  /\ UNCHANGED <<exchange_requests, nextRequestId, warehouses, nextWarehouseId, credit_history,
                 metafields, now, customerCache, users, nextSessionId>>

\* ---------------------------------------------------------- specification
StatusValues == {"approved", "declined", "completed", "bogus"}
TransitValues == {"shipping", "received", "completed", "bogus"}

Next ==
  \/ \E uid \in Owners, body \in CreateBodies :
       nextRequestId <= MaxReqs /\ CreateExchangeRequest(uid, body)
  \/ \E uid \in Owners, id \in RequestIds, body \in UpdateBodies :
       UpdateExchangeRequest(uid, id, body)
  \/ \E uid \in Owners, id \in RequestIds, body \in ShippingBodies :
       SubmitShipping(uid, id, body)
  \/ \E uid \in Owners, id \in RequestIds : CancelExchangeRequest(uid, id)
  \/ \E uid \in Owners, id \in RequestIds : GetExchangeRequest(uid, id)
  \/ \E uid \in AdminCallers, id \in RequestIds, status \in StatusValues,
        adminFeedback \in AdminNotes, warehouseId \in {0} \cup WarehouseIds :
       UpdateStatus(uid, id, status, adminFeedback, warehouseId, "sent")
  \/ \E uid \in AdminCallers, id \in RequestIds, transitStatus \in TransitValues,
        adminNote \in AdminNotes :
       UpdateTransit(uid, id, transitStatus, adminNote, "sent")
  \/ \E uid \in AdminCallers, id \in RequestIds, creditAmount \in CreditBodies :
       AssignCredit(uid, id, creditAmount, "ok", "sent")
  \/ \E uid \in AdminCallers, body \in WarehouseBodies : CreateWarehouse(uid, body)
  \/ \E uid \in AdminCallers, id \in WarehouseIds, body \in WarehouseUpdateBodies :
       UpdateWarehouse(uid, id, body)
  \/ \E uid \in AdminCallers, id \in WarehouseIds : DeleteWarehouse(uid, id)

Spec == Init /\ [][Next]_vars

\* creditAmount of the request bodies sent while writes may fail: 0 and 10
FailureCreditBodies == {Num(0), Num(20)}

\* adminFeedback and adminNote of the request bodies sent while writes may
\* fail: absent, a note, white space, and a note after white space
FailureNotes == {<<>>, <<"a">>, <<" ">>, <<" ", "b">>}

\* The lifecycle of a request of u1 under the admin, with a Firestore whose
\* writes may throw while credit is assigned, and a mail service that may fail
NextFailures ==
  \/ \E body \in CreateBodies : nextRequestId <= MaxReqs /\ CreateExchangeRequest("u1", body)
  \/ \E id \in RequestIds, body \in ShippingBodies : SubmitShipping("u1", id, body)
  \/ \E id \in RequestIds : CancelExchangeRequest("u1", id)
  \/ \E id \in RequestIds, status \in StatusValues, warehouseId \in WarehouseIds :
       \E email \in EmailStates, adminFeedback \in FailureNotes :
         UpdateStatus("adm", id, status, adminFeedback, warehouseId, email)
  \/ \E id \in RequestIds, transitStatus \in TransitValues, email \in EmailStates :
       \E adminNote \in FailureNotes : UpdateTransit("adm", id, transitStatus, adminNote, email)
  \/ \E id \in RequestIds, creditAmount \in FailureCreditBodies, firestore \in FirestoreStates,
        email \in EmailStates :
       AssignCredit("adm", id, creditAmount, firestore, email)
  \/ \E body \in WarehouseBodies : CreateWarehouse("adm", body)

SpecFailures == Init /\ [][NextFailures]_vars

\* Time passes on the clock of the server
Tick(delta) ==
  /\ now' = now + delta
  /\ UNCHANGED <<exchange_requests, nextRequestId, warehouses, nextWarehouseId, credit_history, metafields, customerCache, calls, res, authVars>>

\* Request bodies of PUT /api/exchange/:id sent while the clock runs: a
\* createdAt (JSON has no dates: a string), and a new productName
TimedUpdateBodies == {[createdAt |-> JsonString("x")], [productName |-> "p2"]}

ListedIds == 1..MaxListed

\* The requests of u1 and u2 on a running clock: created, listed, read,
\* updated and cancelled by their owners
NextListing ==
  \/ now < MaxNow /\ Tick(1)
  \/ \E uid \in Owners : nextRequestId <= MaxListed
                          /\ CreateExchangeRequest(uid, CHOOSE body \in CreateBodies : body.productName # "")
  \/ \E uid \in Owners, index \in IndexStates : ListExchangeRequests(uid, index)
  \/ \E uid \in Owners, id \in ListedIds : GetExchangeRequest(uid, id)
  \/ \E uid \in Owners, id \in ListedIds, body \in TimedUpdateBodies :
       UpdateExchangeRequest(uid, id, body)
  \/ \E uid \in Owners, id \in ListedIds : CancelExchangeRequest(uid, id)

SpecListing == Init /\ [][NextListing]_vars

\* A request of u1 on a running clock, updated by its owner and taken through
\* the lifecycle by the admin
NextTimed ==
  \/ now < MaxNow /\ Tick(1)
  \/ nextRequestId <= MaxReqs
       /\ CreateExchangeRequest("u1", CHOOSE body \in CreateBodies : body.productName # "")
  \/ \E id \in RequestIds, body \in TimedUpdateBodies : UpdateExchangeRequest("u1", id, body)
  \/ \E id \in RequestIds, body \in ShippingBodies :
       body.carrierName # "" /\ body.trackingNumber # "" /\ body.shippingDate # ""
         /\ SubmitShipping("u1", id, body)
  \/ \E id \in RequestIds, status \in {"approved", "declined", "completed"} :
       UpdateStatus("adm", id, status, <<>>, 1, "sent")
  \/ \E id \in RequestIds, transitStatus \in {"received", "completed"} :
       UpdateTransit("adm", id, transitStatus, <<>>, "sent")
  \/ \E id \in RequestIds : AssignCredit("adm", id, Num(20), "ok", "sent")
  \/ \E body \in WarehouseBodies : nextWarehouseId <= MaxWarehouses /\ CreateWarehouse("adm", body)

SpecTimed == Init /\ [][NextTimed]_vars

\* Times the clock shows while the cache is watched: an entry made at 0 is one
\* millisecond short of CACHE_TTL, CACHE_TTL old, and twice as old
CacheTimes == {0, CACHE_TTL - 1, CACHE_TTL, 2 * CACHE_TTL}

\* email of the body of POST /api/shopify/check-customer
CheckedEmails == {"e1", "e2", ""}

\* Customer lookups on a running clock: check-customer, and the credit
\* assigned to a request of u1 that the admin took to received
NextCache ==
  \/ \E time \in CacheTimes : time > now /\ Tick(time - now)
  \/ \E email \in CheckedEmails, shopify \in {"ok", "searchFails"} :
       shopify \in LookupStates(customerCache, email, now) /\ CheckCustomer(email, shopify)
  \/ nextRequestId <= MaxReqs
       /\ CreateExchangeRequest("u1", CHOOSE body \in CreateBodies : body.productName # "")
  \/ \E body \in WarehouseBodies : nextWarehouseId <= MaxWarehouses /\ CreateWarehouse("adm", body)
  \/ \E id \in RequestIds : UpdateStatus("adm", id, "approved", <<>>, 1, "sent")
  \/ \E id \in RequestIds, body \in ShippingBodies :
       body.carrierName # "" /\ body.trackingNumber # "" /\ body.shippingDate # ""
         /\ SubmitShipping("u1", id, body)
  \/ \E id \in RequestIds : UpdateTransit("adm", id, "received", <<>>, "sent")
  \/ \E id \in RequestIds : AssignCredit("adm", id, Num(20), "ok", "sent")

SpecCache == Init /\ [][NextCache]_vars

\* The handlers that can wait at the same time
CallIds == 1..MaxCalls

\* Credit assignments of the admin served at the same time, on a request of
\* u1 that was taken to received
NextConcurrent ==
  \/ nextRequestId <= MaxReqs
       /\ CreateExchangeRequest("u1", CHOOSE body \in CreateBodies : body.productName # "")
  \/ \E body \in WarehouseBodies : nextWarehouseId <= MaxWarehouses /\ CreateWarehouse("adm", body)
  \/ \E id \in RequestIds : UpdateStatus("adm", id, "approved", <<>>, 1, "sent")
  \/ \E id \in RequestIds, body \in ShippingBodies :
       body.carrierName # "" /\ body.trackingNumber # "" /\ body.shippingDate # ""
         /\ SubmitShipping("u1", id, body)
  \/ \E id \in RequestIds : UpdateTransit("adm", id, "received", <<>>, "sent")
  \/ \E call \in CallIds, id \in RequestIds, creditAmount \in {Num(4), Num(20)},
         shopify \in ShopifyStates :
       /\ Len(credit_history) + Cardinality(DOMAIN calls) < MaxHistory
       /\ shopify \in LookupStates(customerCache, EmailOf("u1"), now)
       /\ CreditRead(call, "adm", id, creditAmount, shopify)
  \/ \E call \in CallIds, shopify \in {"ok", "metafieldsFail"} : CreditWrite(call, shopify)
  \/ \E call \in CallIds : CreditFinish(call, "ok", "sent")

SpecConcurrent == Init /\ [][NextConcurrent]_vars

\* An owner's cancel and the admin's set-status served at the same time
NextRace ==
  \/ \E uid \in Owners :
       nextRequestId <= MaxReqs
         /\ CreateExchangeRequest(uid, CHOOSE body \in CreateBodies : body.productName # "")
  \/ \E body \in WarehouseBodies : nextWarehouseId <= MaxWarehouses /\ CreateWarehouse("adm", body)
  \/ \E call \in CallIds, uid \in Owners, id \in RequestIds : CancelRead(call, uid, id)
  \/ \E call \in CallIds : CancelDelete(call)
  \/ \E call \in CallIds, id \in RequestIds, status \in {"approved", "declined"},
         warehouseId \in {0} \cup WarehouseIds :
       StatusRead(call, "adm", id, status, <<>>, warehouseId)
  \/ \E call \in CallIds : StatusWrite(call, "sent")

SpecRace == Init /\ [][NextRace]_vars

\* Request bodies of PUT /api/exchange/:id whose shippingDetails lack required
\* fields: only a carrier, and nothing at all
PartialUpdateBodies ==
  {[shippingDetails |-> [carrierName |-> "dhl"]],
   [shippingDetails |-> [notes |-> "n"]]}

\* The owner's two ways of storing shipping details, on a request of u1 that
\* the admin approves and receives
NextShipping ==
  \/ nextRequestId <= MaxReqs
       /\ CreateExchangeRequest("u1", CHOOSE body \in CreateBodies : body.productName # "")
  \/ \E body \in WarehouseBodies : nextWarehouseId <= MaxWarehouses /\ CreateWarehouse("adm", body)
  \/ \E id \in RequestIds, status \in {"approved", "declined"} :
       UpdateStatus("adm", id, status, <<>>, 1, "sent")
  \/ \E id \in RequestIds, body \in UpdateBodies \cup PartialUpdateBodies :
       UpdateExchangeRequest("u1", id, body)
  \/ \E id \in RequestIds, body \in ShippingBodies : SubmitShipping("u1", id, body)
  \/ \E id \in RequestIds, transitStatus \in {"shipping", "received"} :
       UpdateTransit("adm", id, transitStatus, <<>>, "sent")

SpecShipping == Init /\ [][NextShipping]_vars

\* Times the clock shows while sessions are watched: a session made at 0 is
\* past its refreshDeadline, and past its expiresAt
AuthTimes == {0, Days(6) + 1, Days(7) + 1}

\* The tokens a request can bear: none, and every token that can be made
BearerTokens == 0..MaxTokens

\* The middleware makes no token beyond the modelled ones
WithinTokens(token) == nextToken + TokensMade(SessionAuth(token)) <= MaxTokens + 1

\* The routes of /api/auth, served one request at a time on a running clock
NextAuth ==
  \/ \E time \in AuthTimes : time > now /\ Tick(time - now)
  \/ \E email \in {"e1", "e2", ""}, shopify \in {"ok", "searchFails"} :
       /\ nextSessionId <= MaxSessions /\ nextToken <= MaxTokens
       /\ shopify \in LookupStates(customerCache, email, now)
       /\ Login(email, shopify)
  \/ \E email \in {"e1", "e3", ""}, token \in VerifyTokens :
       /\ nextSessionId <= MaxSessions /\ nextToken <= MaxTokens
       /\ VerifyEmail(email, token)
  \/ \E token \in BearerTokens : WithinTokens(token) /\ GetProfile(token)
  \/ \E token \in BearerTokens : WithinTokens(token) /\ Logout(token)
  \/ \E token \in BearerTokens : WithinTokens(token) /\ LogoutAll(token)
  \/ \E token \in BearerTokens, body \in ProfileBodies :
       WithinTokens(token) /\ UpdateProfile(token, body)
  \/ \E token \in BearerTokens, userId \in {"u1", ""} :
       WithinTokens(token) /\ MakeAdmin(token, userId)

SpecAuth == Init /\ [][NextAuth]_vars

\* Requests of GET /api/auth/profile that bear the token of a session of u1,
\* served at the same time on a running clock
NextRotation ==
  \/ \E time \in AuthTimes : time > now /\ Tick(time - now)
  \/ /\ nextSessionId <= MaxSessions /\ nextToken <= MaxTokens
     /\ Login("e1", "ok")
  \/ \E call \in CallIds, token \in BearerTokens : AuthRead(call, token)
  \/ \E call \in CallIds : nextToken <= MaxTokens /\ AuthFinish(call)

SpecRotation == Init /\ [][NextRotation]_vars
\* ------------------------------------------------------------ observations
\* The number a string of decimal digits denotes
RECURSIVE DecimalValue(_)
DecimalValue(s) ==
  IF s = <<>> THEN 0
  ELSE 10 * DecimalValue(SubSeq(s, 1, Len(s) - 1)) + DigitValue(s[Len(s)])

\* The loyalty points the shop holds for a customer: 0 without a metafield
LedgerBalance(ledger, customerId) == DecimalValue(ledger[customerId])

\* The credit_history records written for an exchange request
CreditsOf(id) == {i \in 1..Len(credit_history) : credit_history[i].exchangeRequestId = id}

\* The customer of the shop that owns an exchange request
CustomerOf(exchangeRequest) == SearchCustomers(exchangeRequest.userEmail)[1].id

ConflictCredit == "Credit can only be assigned to approved and received exchange requests"
ConflictNoCredit == "Cannot complete exchange without assigning credit"

\* ------------------------------------------------------------------ claims

\* C1: no exchange request receives more than one successful credit
\* assignment, and a completed request has received exactly one.
C1_CreditedExactlyOnce ==
  \A id \in DOMAIN exchange_requests :
    /\ Cardinality(CreditsOf(id)) <= 1
    /\ exchange_requests[id].status = "completed" => Cardinality(CreditsOf(id)) = 1

\* C2: once the status of an exchange request is declined or completed, no
\* step changes its status or its transitStatus (or removes it).
C2_TerminalStatus ==
  [][\A id \in DOMAIN exchange_requests :
       exchange_requests[id].status \in {"declined", "completed"} =>
         /\ id \in DOMAIN exchange_requests'
         /\ exchange_requests'[id].status = exchange_requests[id].status
         /\ exchange_requests'[id].transitStatus = exchange_requests[id].transitStatus]_vars

\* C3: an admin set-status to declined on a request that is not pending is
\* refused with a 400 and leaves the request as it was.
C3_DeclineOnlyPending ==
  [][(/\ res'.op = "status"
      /\ res'.requested = "declined"
      /\ res'.status # 403
      /\ Exists(exchange_requests, res'.id)
      /\ exchange_requests[res'.id].status # "pending")
     => (res'.status = 400 /\ exchange_requests' = exchange_requests)]_vars

\* C4: assign-credit succeeds only on a request that is approved and
\* received; on any other request an admin's call is refused with a 400 and
\* the requests, the ledger and the credit history stay as they were.
C4_CreditRequiresApprovedReceived ==
  [][res'.op = "credit" =>
       /\ res'.status = 200 =>
            /\ Exists(exchange_requests, res'.id)
            /\ exchange_requests[res'.id].status = "approved"
            /\ exchange_requests[res'.id].transitStatus = "received"
       /\ (/\ res'.status # 403
           /\ Exists(exchange_requests, res'.id)
           /\ \/ exchange_requests[res'.id].status # "approved"
              \/ exchange_requests[res'.id].transitStatus # "received")
          => /\ res'.status = 400
             /\ UNCHANGED <<exchange_requests, metafields, credit_history>>]_vars

\* C4 witness: an approved request still in shipping was refused credit.
C4_Witness ==
  /\ res.op = "credit" /\ res.status = 400 /\ res.error = ConflictCredit
  /\ Exists(exchange_requests, res.id)
  /\ exchange_requests[res.id].status = "approved"
  /\ exchange_requests[res.id].transitStatus = "shipping"

\* C5: a successful assign-credit of a whole amount a on a ledger balance b
\* leaves the ledger at b + a, the request with creditAmount a and
\* totalLoyaltyPoints b + a, and appends one credit_history record of amount a.
C5_CreditAddsToLedger ==
  [][(res'.op = "credit" /\ res'.status = 200 /\ res'.requested.halves % 2 = 0) =>
       LET id == res'.id
           a == res'.requested.halves \div 2
           c == CustomerOf(exchange_requests[id])
           b == LedgerBalance(metafields, c)
           n == Len(credit_history)
       IN /\ LedgerBalance(metafields', c) = b + a
          /\ exchange_requests'[id].creditAmount = a
          /\ exchange_requests'[id].totalLoyaltyPoints = b + a
          /\ Len(credit_history') = n + 1
          /\ SubSeq(credit_history', 1, n) = credit_history
          /\ credit_history'[n + 1].amount = a
          /\ credit_history'[n + 1].exchangeRequestId = id]_vars

\* C5 witness: a whole amount was credited on top of an earlier balance.
C5_Witness ==
  /\ res.op = "credit" /\ res.status = 200 /\ res.requested = Num(20)
  /\ LedgerBalance(metafields, "c1") = 12
  /\ exchange_requests[res.id].creditAmount = 10
  /\ exchange_requests[res.id].totalLoyaltyPoints = 12

\* C6: the same assign-credit call, repeated by the admin right after it
\* succeeded, succeeds again unless Shopify or Firestore fails: it increments the ledger
\* again and writes a second credit_history record.
C6_CreditNotIdempotent ==
  [][(/\ res.op = "credit" /\ res.status = 200
      /\ res'.op = "credit" /\ res'.id = res.id /\ res'.requested = res.requested
      /\ res'.status # 403 /\ res'.shopify \in {"none", "ok"}
      /\ res'.firestore \in {"none", "ok"})
     => LET c == CustomerOf(exchange_requests[res.id])
        IN /\ res'.status = 200
           /\ LedgerBalance(metafields', c) =
                LedgerBalance(metafields, c) + exchange_requests[res.id].creditAmount
           /\ Len(credit_history') = Len(credit_history) + 1]_vars

\* C6 witness: two credit_history records of one request and one amount, and
\* a ledger holding the amount twice.
C6_Witness ==
  /\ Len(credit_history) = 2
  /\ credit_history[1].exchangeRequestId = credit_history[2].exchangeRequestId
  /\ credit_history[1].amount = 10 /\ credit_history[2].amount = 10
  /\ LedgerBalance(metafields, "c1") = 20
  /\ res.op = "credit" /\ res.status = 200

\* C7: when the ledger write fails during assign-credit the call still
\* succeeds, and the request records the credit with loyaltyPointsSuccess false.
C7_LedgerFailureIsDegradedSuccess ==
  (res.op = "credit" /\ res.shopify = "metafieldsFail") =>
    /\ res.status = 200
    /\ "loyaltyPointsSuccess" \in DOMAIN exchange_requests[res.id]
    /\ exchange_requests[res.id].loyaltyPointsSuccess = FALSE
    /\ exchange_requests[res.id].creditAmount = IntOf(MathRound(res.requested))

C10_TransitOnlyWhenApproved ==
  \A id \in DOMAIN exchange_requests :
    exchange_requests[id].transitStatus # NULL =>
      exchange_requests[id].status \in {"approved", "completed"}

\* C11: an owner's cancel of their own request deletes it when its status is
\* pending, and only then; on an approved, declined or completed request it
\* is refused with a 400 and the request stays as it was.
C11_CancelIffPending ==
  [][\A uid \in Owners, id \in RequestIds :
       (res'.op = "cancel" /\ CancelExchangeRequest(uid, id) /\ Exists(exchange_requests, id)
          /\ exchange_requests[id].userId = uid)
       => IF exchange_requests[id].status = "pending"
            THEN res'.status = 200 /\ ~Exists(exchange_requests', id)
            ELSE /\ res'.status = 400
                 /\ exchange_requests' = exchange_requests]_vars

\* C11 witness: the owner's cancel of an approved request was refused.
C11_Witness ==
  /\ res.op = "cancel" /\ res.status = 400
  /\ Exists(exchange_requests, res.id)
  /\ exchange_requests[res.id].status = "approved"

C13_ApproveNeedsPendingAndWarehouse ==
  [][\A id \in RequestIds, adminFeedback \in AdminNotes, warehouseId \in {0} \cup WarehouseIds :
       (/\ res'.op = "status" /\ res'.requested = "approved"
        /\ UpdateStatus("adm", id, "approved", adminFeedback, warehouseId, "sent")
        /\ Exists(exchange_requests, id))
       => IF exchange_requests[id].status # "pending" \/ warehouseId = 0
            THEN res'.status = 400 /\ exchange_requests' = exchange_requests
          ELSE IF ~Exists(warehouses, warehouseId)
            THEN res'.status = 404 /\ exchange_requests' = exchange_requests
          ELSE /\ res'.status = 200
               /\ exchange_requests'[id].status = "approved"
               /\ exchange_requests'[id].warehouseId = warehouseId
               /\ exchange_requests'[id].warehouseInfo = WarehouseInfo(warehouses[warehouseId])]_vars

\* C13 witness: the approval of a pending request was refused for a warehouse
\* that does not exist.
C13_Witness ==
  /\ res.op = "status" /\ res.requested = "approved" /\ res.status = 404
  /\ res.error = "Selected warehouse not found"
  /\ exchange_requests[res.id].status = "pending"
  /\ "warehouseInfo" \notin DOMAIN exchange_requests[res.id]

\* C14: the warehouseInfo of a request is the data of the chosen warehouse as
\* it was when the request was approved, and no later step changes it.
C14_WarehouseInfoFrozen ==
  [][/\ (res'.op = "status" /\ res'.requested = "approved" /\ res'.status = 200)
          => \E w \in DOMAIN warehouses :
               exchange_requests'[res'.id].warehouseInfo = WarehouseInfo(warehouses[w])
     /\ \A id \in DOMAIN exchange_requests \cap DOMAIN exchange_requests' :
          (exchange_requests[id].status # "pending"
             /\ "warehouseInfo" \in DOMAIN exchange_requests[id])
          => exchange_requests'[id].warehouseInfo = exchange_requests[id].warehouseInfo]_vars

\* The place of a transitStatus in the order null < shipping < received < completed
TransitRank(transitStatus) ==
  CASE transitStatus = NULL -> 0
    [] transitStatus = "shipping" -> 1
    [] transitStatus = "received" -> 2
    [] transitStatus = "completed" -> 3

\* C15: no step moves the transitStatus of a request backwards in the order
\* null < shipping < received < completed.
C15_TransitNeverBackwards ==
  [][\A id \in DOMAIN exchange_requests \cap DOMAIN exchange_requests' :
       TransitRank(exchange_requests'[id].transitStatus)
         >= TransitRank(exchange_requests[id].transitStatus)]_vars

\* C16: an admin's set-transit to received succeeds exactly when the request
\* is approved and has shipping details, whatever its transitStatus is; it
\* then sets transitStatus to received.  Otherwise it is refused with a 400
\* and the request, its transitStatus included, stays as it was.
C16_ReceivedNeedsShippingDetails ==
  [][(/\ res'.op = "transit" /\ res'.requested = "received" /\ res'.status # 403
      /\ Exists(exchange_requests, res'.id))
     => LET before == exchange_requests[res'.id]
        IN IF before.status = "approved" /\ TruthyObject(before, "shippingDetails")
             THEN /\ res'.status = 200
                  /\ exchange_requests'[res'.id].transitStatus = "received"
             ELSE /\ res'.status = 400
                  /\ exchange_requests' = exchange_requests]_vars

\* C16 witness: an approved request in shipping without shipping details was
\* refused the move to received.
C16_Witness ==
  /\ res.op = "transit" /\ res.requested = "received" /\ res.status = 400
  /\ res.error = "Cannot mark as received without shipping details"
  /\ exchange_requests[res.id].status = "approved"
  /\ exchange_requests[res.id].transitStatus = "shipping"

\* C17: a call that is refused with a 400, 403 or 404, or because the shop
\* knows no customer for the owner, leaves the exchange requests, the
\* warehouses, the ledger and the credit history as they were.
C17_RejectionChangesNothing ==
  [][(res'.status \in {400, 403, 404} \/ res'.error = "Failed to find customer in Shopify")
       => UNCHANGED <<exchange_requests, warehouses, metafields, credit_history>>]_vars

\* C17 witness: the completion of a received request without credit was refused.
C17_Witness ==
  /\ res.op = "transit" /\ res.requested = "completed" /\ res.status = 400
  /\ res.error = ConflictNoCredit
  /\ exchange_requests[res.id].transitStatus = "received"
  /\ exchange_requests[res.id].creditAmount = 0

\* C18: assign-credit writes the ledger first, then the exchange request,
\* then the credit_history record.  When the ledger write fails nothing is
\* written; when the update of the exchange request fails the call answers
\* 500, the ledger stays incremented, and neither the request nor the
\* credit history is changed.
C18_LedgerBeforeStore ==
  [][res'.op = "credit" =>
       /\ res'.shopify = "metafieldsFail"
            => UNCHANGED <<metafields, exchange_requests, credit_history>>
       /\ res'.firestore = "updateFails"
            => LET c == CustomerOf(exchange_requests[res'.id])
               IN /\ res'.status = 500
                  /\ LedgerBalance(metafields', c) =
                       LedgerBalance(metafields, c) + IntOf(MathRound(res'.requested))
                  /\ UNCHANGED <<exchange_requests, credit_history>>
       /\ res'.firestore = "addFails"
            => /\ exchange_requests'[res'.id].creditAmount = IntOf(MathRound(res'.requested))
               /\ UNCHANGED credit_history]_vars

\* C18 witness: the update of the exchange request failed after the ledger
\* was credited: points in the ledger, no credit on the request, no history.
C18_Witness ==
  /\ res.op = "credit" /\ res.firestore = "updateFails" /\ res.status = 500
  /\ LedgerBalance(metafields, "c1") = 10
  /\ exchange_requests[res.id].creditAmount = 0
  /\ credit_history = <<>>

\* C19: when approve, set-transit to received or assign-credit has made its
\* writes and sends its notification, the call answers 200 and the writes
\* stay, whether the send succeeds or fails.
C19_NotificationFailureHarmless ==
  [][(res'.op \in {"status", "transit", "credit"} /\ res'.email \in EmailStates)
     => LET id == res'.id
        IN /\ res'.status = 200
           /\ res'.op = "status" =>
                /\ res'.requested = "approved"
                /\ exchange_requests[id].status = "pending"
                /\ exchange_requests'[id].status = "approved"
           /\ res'.op = "transit" =>
                /\ res'.requested = "received"
                /\ exchange_requests'[id].transitStatus = "received"
           /\ res'.op = "credit" =>
                /\ exchange_requests'[id].creditAmount = IntOf(MathRound(res'.requested))
                /\ Len(credit_history') = Len(credit_history) + 1
                /\ LedgerBalance(metafields', CustomerOf(exchange_requests[id])) =
                     LedgerBalance(metafields, CustomerOf(exchange_requests[id]))
                       + IntOf(MathRound(res'.requested))]_vars

\* C19 witness: a request was approved while the approval mail failed.
C19_Witness ==
  /\ res.op = "status" /\ res.requested = "approved" /\ res.email = "failed"
  /\ res.status = 200
  /\ exchange_requests[res.id].status = "approved"

SortedByCreatedAtDesc(list) ==
  \A i \in 1..(Len(list) - 1) : list[i].createdAt >= list[i + 1].createdAt

\* C21: the listing of an owner's requests is the same sequence whether the
\* ordered query answers or the handler falls back to the unordered query and
\* its own sort: it is answered with a 200, in createdAt descending order,
\* and holds exactly the owner's requests.
C21_ListingSameEitherWay ==
  (res.op = "list" /\ res.index \in {"ok", "missing"}) =>
    LET other == ListResponse(res.uid, IF res.index = "ok" THEN "missing" ELSE "ok")
    IN /\ res.status = 200
       /\ res.list = other.list
       /\ SortedByCreatedAtDesc(res.list)
       /\ Len(res.list) = Cardinality(OwnedBy(res.uid))
       /\ {res.list[i].id : i \in 1..Len(res.list)} = OwnedBy(res.uid)

\* C22: an admin's assign-credit of a valid amount on an approved and
\* received request whose owner's email has no customer in the shop, the shop
\* answering, is refused with a 404 and leaves the requests, the ledger and
\* the credit history as they were.
C22_CustomerNotFoundIs404 ==
  [][(/\ res'.op = "credit" /\ res'.status # 403 /\ res'.shopify = "ok"
      /\ ~InvalidCreditAmount(MathRound(res'.requested))
      /\ Exists(exchange_requests, res'.id)
      /\ ~CreditGuard(exchange_requests[res'.id])
      /\ SearchCustomers(exchange_requests[res'.id].userEmail) = <<>>)
     => /\ res'.status = 404
        /\ UNCHANGED <<exchange_requests, metafields, credit_history>>]_vars

\* C23: an admin's assign-credit with an amount that is zero, negative, not
\* a whole number (1.5) or not a number is refused with a 400 for its amount
\* and leaves the requests, the ledger and the credit history as they were,
\* also on a request that is approved and received.
C23_InvalidAmountRejected ==
  [][(/\ res'.op = "credit" /\ res'.status # 403
      /\ \/ res'.requested = NaN
         \/ res'.requested.halves <= 0
         \/ res'.requested.halves % 2 # 0
      /\ Exists(exchange_requests, res'.id)
      /\ ~CreditGuard(exchange_requests[res'.id]))
     => /\ res'.status = 400
        /\ res'.error = "Invalid loyalty points amount"
        /\ UNCHANGED <<exchange_requests, metafields, credit_history>>]_vars

\* C24: the credit history is append-only: every step leaves the records it
\* holds as they are and in their places, and at most adds records after them.
C24_CreditHistoryAppendOnly ==
  [][/\ Len(credit_history') >= Len(credit_history)
     /\ SubSeq(credit_history', 1, Len(credit_history)) = credit_history]_vars

\* C24 witness: a second credit was recorded after the first, which is still
\* in the history.
C24_Witness ==
  /\ res.op = "credit" /\ res.status = 200
  /\ Len(credit_history) = 2
  /\ credit_history[1].amount = 2 /\ credit_history[1].totalLoyaltyPoints = 2
  /\ credit_history[2].amount = 10 /\ credit_history[2].totalLoyaltyPoints = 12

\* The body of POST /:id/shipping has its required fields
CompleteShipping(body) ==
  body.carrierName # "" /\ body.trackingNumber # "" /\ body.shippingDate # ""

IsPrefix(s, t) == Len(s) <= Len(t) /\ SubSeq(t, 1, Len(s)) = s

C27_TimestampsMaintained ==
  [][/\ (now' = now /\ res'.op \in {"update", "shipping", "status", "transit", "credit"}
            /\ res'.status = 200)
          => exchange_requests'[res'.id].updatedAt = Timestamp(now)
     /\ \A id \in DOMAIN exchange_requests \cap DOMAIN exchange_requests' :
          exchange_requests'[id].createdAt = exchange_requests[id].createdAt]_vars

\* -------------------------------------------------------------------- C28
\* The step is a customer lookup for email: check-customer, or a credit
\* assignment that got as far as findCustomerByEmail
LookupStep(email) ==
  /\ now' = now
  /\ IF res'.op = "check" THEN "checked" \in DOMAIN res' /\ res'.checked = email
     ELSE IF res'.op = "credit"
       THEN res'.shopify # "none" /\ exchange_requests[res'.id].userEmail = email
     ELSE FALSE

C29_UpdateOnlyWhilePendingOrApproved ==
  [][(/\ res'.op = "update"
      /\ Exists(exchange_requests, res'.id)
      /\ exchange_requests[res'.id].status \in {"declined", "completed"})
       => /\ res'.status # 200
          /\ exchange_requests' = exchange_requests]_vars

\* -------------------------------------------------------------------- C30
\* The amounts of the credit_history records written for a customer, summed
RECURSIVE HistoryTotal(_, _)
HistoryTotal(history, customerId) ==
  IF history = <<>> THEN 0
  ELSE HistoryTotal(SubSeq(history, 1, Len(history) - 1), customerId)
         + (IF history[Len(history)].shopifyCustomerId = customerId
              THEN history[Len(history)].amount ELSE 0)

\* C30: under any interleaving of assign-credit operations for the same
\* customer, once all of them have finished the ledger balance of the
\* customer is the initial balance (0) plus the sum of the amounts of the
\* credit_history records written for the customer: no increment is lost.
C30_NoIncrementLost ==
  calls = <<>> =>
    \A customerId \in CustomerIds :
      LedgerBalance(metafields, customerId) = HistoryTotal(credit_history, customerId)

\* -------------------------------------------------------------------- C31
\* C31: under any interleaving of an owner cancel with an admin approve of
\* the same pending request, a request whose stored status is approved is
\* never deleted: the cancel takes effect and the approve does not, or the
\* approve takes effect and the cancel is rejected.
C31_ApprovedNeverDeleted ==
  [][\A id \in DOMAIN exchange_requests :
       exchange_requests[id].status = "approved" => id \in DOMAIN exchange_requests']_vars

\* -------------------------------------------------------------------- C32
\* C32: in every reachable state the status of an exchange request is
\* completed if and only if its transitStatus is completed.
C32_CompletedTogether ==
  \A id \in DOMAIN exchange_requests :
    exchange_requests[id].status = "completed" <=> exchange_requests[id].transitStatus = "completed"

\* -------------------------------------------------------------------- C33
\* C33: in every reachable state an exchange request whose transitStatus is
\* shipping, received or completed has shippingDetails.
C33_InTransitHasShippingDetails ==
  \A id \in DOMAIN exchange_requests :
    exchange_requests[id].transitStatus \in {"shipping", "received", "completed"}
      => TruthyObject(exchange_requests[id], "shippingDetails")

\* -------------------------------------------------------------------- C34
\* C34: in every reachable state where an exchange request has
\* shippingDetails, they hold a carrier, a tracking number and a shipping
\* date.
C34_ShippingDetailsComplete ==
  \A id \in DOMAIN exchange_requests :
    TruthyObject(exchange_requests[id], "shippingDetails")
      => /\ TruthyString(exchange_requests[id].shippingDetails, "carrierName")
         /\ TruthyString(exchange_requests[id].shippingDetails, "trackingNumber")
         /\ TruthyObject(exchange_requests[id].shippingDetails, "shippingDate")

\* -------------------------------------------------------------------- C35
\* The amounts of the credit_history records that reference a request, summed
RECURSIVE CreditedTo(_, _)
CreditedTo(history, id) ==
  IF history = <<>> THEN 0
  ELSE CreditedTo(SubSeq(history, 1, Len(history) - 1), id)
         + (IF history[Len(history)].exchangeRequestId = id
              THEN history[Len(history)].amount ELSE 0)

\* C35: in every reachable state the creditAmount of an exchange request is
\* the sum of the amounts of the credit_history records that reference it
\* (0 when there are none).
C35_CreditAmountIsHistoryTotal ==
  \A id \in DOMAIN exchange_requests :
    exchange_requests[id].creditAmount = CreditedTo(credit_history, id)

\* -------------------------------------------------------------------- C38
\* C38: verify-email issues a session only for a valid token: a request that
\* carries an invalid or expired token (one that was not mailed) is rejected
\* with 401 and creates no user and no session.
C38_VerifyEmailNeedsValidToken ==
  [][(now' = now /\ res'.op = "verify" /\ res'.forEmail # "" /\ res'.token = "forged")
       => /\ res'.status = 401
          /\ UNCHANGED <<users, sessions>>]_vars

\* -------------------------------------------------------------------- C39
\* The user a token authenticates in a state, as a set (empty: none)
Bearer(token) == {sessions[id].userId : id \in SessionsWithToken(sessions, token)}

\* C39: the isAdmin of a user is false when the user is created (by login or
\* verify-email) and becomes true only through a make-admin that names the
\* user and is invoked with the token of a user who is an admin already; no
\* other operation, profile update included, changes it.
C39_AdminOnlyByAdmin ==
  [][\A uid \in DOMAIN users' :
       IF uid \notin DOMAIN users
         THEN users'[uid].isAdmin = FALSE /\ res'.op \in {"login", "verify"}
       ELSE users'[uid].isAdmin # users[uid].isAdmin
              => /\ users'[uid].isAdmin = TRUE
                 /\ res'.op = "make-admin" /\ res'.status = 200 /\ res'.userId = uid
                 /\ \E actor \in Bearer(res'.bearer) : users[actor].isAdmin = TRUE]_vars

\* The admin made u1 an admin
C39_Witness ==
  /\ res.op = "make-admin" /\ res.status = 200 /\ res.userId = "u1"
  /\ users["u1"].isAdmin = TRUE

\* -------------------------------------------------------------------- C37
\* The tokens that the sessions of a collection hold
TokensOf(coll) == {coll[id].token : id \in DOMAIN coll}

\* The step served a request behind sessionAuthMiddleware
AuthenticatedStep ==
  /\ now' = now
  /\ res'.op \in {"profile", "profile.update", "logout", "logout-all", "make-admin"}

\* C37: a token never authenticates a request once its session is
\* invalidated.  A request is let through only if a session that has not
\* expired holds its token; a session past its expiresAt is rejected with
\* 401 and deleted on first use; logout deletes the session of the request;
\* logout-all deletes every session of the user; and a token that no session
\* holds any more is never held by a session again.
C37_InvalidatedNeverAuthenticates ==
  [][/\ AuthenticatedStep =>
          LET held == SessionsWithToken(sessions, res'.bearer)
          IN /\ res'.status # 401
                  => \E id \in held : sessions[id].expiresAt.date >= now
             /\ \A id \in held :
                  sessions[id].expiresAt.date < now
                    => res'.status = 401 /\ id \notin DOMAIN sessions'
             /\ (res'.op = "logout" /\ res'.status = 200)
                  => \A id \in held : id \notin DOMAIN sessions'
             /\ (res'.op = "logout-all" /\ res'.status = 200)
                  => \A id \in held : \A other \in DOMAIN sessions' :
                       sessions'[other].userId # sessions[id].userId
             /\ res'.status = 401 => UNCHANGED users
     /\ TokensOf(sessions') \subseteq TokensOf(sessions) \cup {nextToken}
     /\ nextToken' >= nextToken
     /\ \A token \in TokensOf(sessions) : token < nextToken]_vars

\* A request bore the token of a session past its expiresAt: it was answered
\* 401 and no session holds the token any more
C37_Witness ==
  /\ res.op = "profile" /\ res.status = 401 /\ res.error = "Session expired"
  /\ res.bearer # NoToken
  /\ res.bearer \notin TokensOf(sessions)

\* -------------------------------------------------------------------- C36
\* C36: a request that arrives after the refreshDeadline of its session and
\* before its expiresAt rotates the token: the new token is handed to the
\* caller, the old token is held by no session afterwards, and, also when
\* several requests bear the same old token at the same time, every new
\* token that was handed to a caller stays valid.
C36_RotationKeepsHandedTokens ==
  [][(/\ now' = now
      /\ DOMAIN calls' # DOMAIN calls /\ DOMAIN calls' \subseteq DOMAIN calls
      /\ res'.op = "profile" /\ res'.status = 200)
       => /\ (\E id \in SessionsWithToken(sessions, res'.bearer) : NeedsRotation(sessions[id]))
               => res'.handed # NoToken
          /\ res'.handed # NoToken
               => /\ res'.handed \in TokensOf(sessions')
                  /\ res'.bearer \notin TokensOf(sessions')
                  /\ TokensOf(sessions) \ {res'.bearer} \subseteq TokensOf(sessions')]_vars

====
